---- MODULE Spec2Model ----
(***************************************************************************)
(* Model of kindling's generation core: the bundle assembler               *)
(* (bundle_assembler.py), the reference rewrite it performs, and the       *)
(* orchestration of Generator.generate (generator.py).                     *)
(*                                                                         *)
(* Strings that the code inspects are modelled by their structure:         *)
(*   a string is [t |-> "str", urn |-> b, parts |-> <<p1, ..., pn>>]        *)
(*   and stands for  (b ? "urn:uuid:" : "") + "/".join(parts).             *)
(* A dumped resource body is a tree of dict / list / str nodes, as         *)
(* produced by model_dump and walked by _update_references.                *)
(***************************************************************************)
EXTENDS Integers, Sequences, FiniteSets, TLC

\* ------------------------------------------------------------------ bounds
\* Largest count (number of cohort subjects) generate is called with.
MaxCount == 2
\* Largest qty a timing specification or an immunization definition asks for.
MaxQty == 3
\* Number of _update_references passes made over one structure.
MaxRewrites == 2
\* Longest record list handed to the assembler when it is called directly.
MaxRecords == 3
\* Largest bundle_size tried.
MaxBundleSize == 2

\* ------------------------------------------------------------------ values
\* Python's None, also what f"{None}" formats to.
None == "None"

Str(urn, parts) == [t |-> "str", urn |-> urn, parts |-> parts]
Dict(f) == [t |-> "dict", f |-> f]
List(items) == [t |-> "list", items |-> items]

\* "" (falsy, like an absent value)
EmptyString == Str(FALSE, <<>>)

\* f"{rtype}/{id}"
RelRef(rtype, id) == Str(FALSE, <<rtype, id>>)

\* The wrong rewrite target of a variant that keeps the resource type and only
\* swaps the id: f"{parts[0]}/{urn_mapping[ref_id]}".
UrnUuidKeepType(reference, id) == Str(FALSE, <<reference.parts[1], id>>)

\* f"urn:uuid:{id}"
UrnUuid(id) == Str(TRUE, <<id>>)

\* {"reference": s}
Reference(s) == Dict([reference |-> s])

\* A field that is not set.
Unset == [t |-> "none"]

\* A number of days before now, as a date field holds it.
DaysAgo(v) == [t |-> "days_ago", v |-> v]

\* now - timedelta(days=self.rng.randint(a, b)): a date drawn from the stream.
RandintDaysAgo(a, b) == [t |-> "randint_days_ago", a |-> a, b |-> b]

\* Quantity(value=v)
Quantity(v) == [t |-> "quantity", v |-> v]

Max(a, b) == IF a >= b THEN a ELSE b

\* reference.startswith("urn:uuid:")
StartsWithUrnUuid(s) == s.urn

\* reference.split("/"): the pieces between slashes (a leading "urn:uuid:" stays
\* glued to the first piece, so the number of pieces is the number of parts).
Split(s) == s.parts

\* dict(a); a.update(b): b's bindings win.
DictUpdate(a, b) ==
  [k \in (DOMAIN a) \cup (DOMAIN b) |-> IF k \in DOMAIN b THEN b[k] ELSE a[k]]

\* a[k] = v on a dict
DictSet(a, k, v) == [x \in (DOMAIN a) \cup {k} |-> IF x = k THEN v ELSE a[x]]

EmptyDict == [k \in {} |-> None]

\* ------------------------------------------------------------------ _update_references
\* The replacement of one "reference" value, as a variant without the
\* target-form change would do it (kept type prefix).
RewriteReferenceKeepType(reference, mapping) ==
  IF /\ reference.t = "str"
     /\ ~StartsWithUrnUuid(reference)
     /\ Len(Split(reference)) = 2
     /\ Split(reference)[2] \in DOMAIN mapping
  THEN UrnUuidKeepType(reference, mapping[Split(reference)[2]])
  ELSE reference

\* Lines 210-216: the new value of data["reference"].
RewriteReference(reference, mapping) ==
  IF /\ reference.t = "str"
     /\ ~StartsWithUrnUuid(reference)
     /\ Len(Split(reference)) = 2
     /\ Split(reference)[2] \in DOMAIN mapping
  THEN UrnUuid(mapping[Split(reference)[2]])
  ELSE reference

RECURSIVE UpdateReferences(_, _)
UpdateReferences(data, mapping) ==
  IF data.t = "dict"
  THEN LET f1 == IF "reference" \in DOMAIN data.f
                 THEN [data.f EXCEPT !["reference"] =
                         RewriteReference(data.f["reference"], mapping)]
                 ELSE data.f
       IN Dict([k \in DOMAIN f1 |-> UpdateReferences(f1[k], mapping)])
  ELSE IF data.t = "list"
  THEN List([i \in DOMAIN data.items |-> UpdateReferences(data.items[i], mapping)])
  ELSE data

\* ------------------------------------------------------------------ resources
\* A resource: its class name, its id (or None), its business identifiers
\* (a list of [system, value]) and the rest of its dumped fields.
Resource(rtype, id, identifier, body) ==
  [rtype |-> rtype, id |-> id, identifier |-> identifier, body |-> body]

Identifier(system, value) == [system |-> system, value |-> value]

\* f"{ident.system}|{ident.value}"
IdentifierValue(ident) == <<ident.system, "|", ident.value>>

\* BundleEntryRequest(method=, url=, ifNoneMatch=, ifNoneExist=); a url is its
\* path pieces and its query ("identifier=" + guard), <<>> when absent.
BundleEntryRequest(method, path, query, ifNoneMatch, ifNoneExist) ==
  [method |-> method, path |-> path, query |-> query,
   ifNoneMatch |-> ifNoneMatch, ifNoneExist |-> ifNoneExist]

\* entry.request of an entry that was given none.
NoRequest == BundleEntryRequest(None, <<>>, <<>>, None, None)

\* ------------------------------------------------------------------ _create_bundle_entry
\* A variant that takes the last identifier as the guard.
LastIdentifier(resource) == resource.identifier[Len(resource.identifier)]

\* Lines 165 and 191: ident = resource.identifier[0].
FirstIdentifier(resource) == resource.identifier[1]

\* Lines 168 and 189: resource_type == "Patient".
IsPatient(resource) == resource.rtype = "Patient"

\* A variant that sends every record as a plain request to <Kind>/<id>, with no
\* ifNoneMatch.
EntryRequestUnguarded(resource, method) ==
  BundleEntryRequest(IF method = "PUT" THEN "PUT" ELSE "POST",
                     <<resource.rtype, resource.id>>, <<>>, None, None)

\* Lines 149-202: the request of an entry of a transaction bundle.
EntryRequest(resource, method) ==
  LET resource_type == resource.rtype
      original_id == resource.id
      has_identifier == resource.identifier # <<>>
      identifier_value == IdentifierValue(FirstIdentifier(resource))
  IN
  IF method = "PUT"
  THEN BundleEntryRequest("PUT", <<resource_type, resource.id>>, <<>>, "*", None)
  ELSE IF method = "CONDITIONAL"
  THEN IF IsPatient(resource)
       THEN IF has_identifier
            THEN BundleEntryRequest("POST", <<resource_type>>,
                                    <<"identifier=">> \o identifier_value, None, None)
            ELSE IF original_id # None
            THEN BundleEntryRequest("POST", <<resource_type>>,
                                    <<"identifier=", original_id>>, None, None)
            ELSE BundleEntryRequest("POST", <<resource_type>>, <<>>, None, None)
       ELSE BundleEntryRequest("POST", <<resource_type>>, <<>>, None, None)
  ELSE IF IsPatient(resource) /\ has_identifier
       THEN BundleEntryRequest("POST", <<resource_type>>, <<>>, None,
                               <<"identifier=">> \o identifier_value)
       ELSE BundleEntryRequest("POST", <<resource_type>>, <<>>, None, None)

\* A variant that attaches a request whatever the bundle type.
RequestForAlways(resource, btype, method) == EntryRequest(resource, method)

\* Lines 149-204: entry.request.
RequestFor(resource, btype, method) ==
  IF btype = "transaction" THEN EntryRequest(resource, method) ELSE NoRequest

\* Line 118: urn_mapping and resource.id in urn_mapping.
InMapping(resource, mapping) ==
  DOMAIN mapping # {} /\ resource.id \in DOMAIN mapping

\* A variant that draws a new transport identifier for every record.
UrnUuidForAlwaysNew(resource, mapping, uuid4) == uuid4

\* Lines 118-123: the transport-local identifier of the record.
UrnUuidFor(resource, mapping, uuid4) ==
  IF InMapping(resource, mapping) THEN mapping[resource.id] ELSE uuid4

\* Lines 115-204.  uuid4 is the value uuid.uuid4() returns if it is called.
\* Yields the entry, the (mutated) mapping and whether uuid4 was called.
CreateBundleEntry(resource, btype, method, mapping, uuid4) ==
  LET original_id == resource.id
      urn_uuid == UrnUuidFor(resource, mapping, uuid4)
      mapping1 == IF method = "POST" /\ original_id # None
                  THEN DictSet(mapping, original_id, urn_uuid)
                  ELSE mapping
      body1 == IF DOMAIN mapping1 # {}
               THEN UpdateReferences(resource.body, mapping1)
               ELSE resource.body
      base == IF method = "POST"
              THEN [resource |-> Resource(resource.rtype, None, resource.identifier, body1),
                    fullUrl |-> UrnUuid(urn_uuid)]
              ELSE [resource |-> resource, fullUrl |-> UrnUuid(resource.id)]
  IN [entry |-> [resource |-> base.resource, fullUrl |-> base.fullUrl,
                 request |-> RequestFor(resource, btype, method)],
      mapping |-> mapping1,
      minted |-> (method = "POST" /\ ~InMapping(resource, mapping))]

\* ------------------------------------------------------------------ SeededRandom
\* SeededRandom.uuid(): the values the seeded stream yields, numbered by call.
\* They are distinct from one another and from what uuid.uuid4() yields.
RngUuids == <<"g01", "g02", "g03", "g04", "g05", "g06", "g07", "g08", "g09", "g10", "g11", "g12",
           "g13", "g14", "g15", "g16", "g17", "g18", "g19", "g20", "g21", "g22", "g23", "g24",
           "g25", "g26", "g27", "g28", "g29", "g30", "g31", "g32", "g33", "g34", "g35", "g36",
           "g37", "g38", "g39", "g40", "g41", "g42", "g43", "g44", "g45", "g46", "g47", "g48",
           "g49", "g50", "g51", "g52", "g53", "g54", "g55", "g56", "g57", "g58", "g59", "g60",
           "g61", "g62", "g63", "g64", "g65", "g66", "g67", "g68", "g69", "g70", "g71", "g72",
           "g73", "g74", "g75", "g76", "g77", "g78", "g79", "g80">>

\* A variant whose stream starts over for every few draws, as a generator
\* constructed again from the same seed would.
RngUuidRestarted(n) == RngUuids[((n - 1) % 3) + 1]

\* A variant whose stream yields every value twice in a row.
RngUuidInPairs(n) == RngUuids[(n + 1) \div 2]

RngUuid(n) == RngUuids[n]

\* ------------------------------------------------------------------ ResourceFactory
\* SYSTEMS["MRN"]
MrnSystem == "http://hospital.example/mrn"

\* Lines 64-171.  mrn_uuid is what self.rng.uuid() yields if the default MRN is made.
CreatePatient(patient_def, patient_id, mrn_uuid) ==
  LET identifiers == [n \in DOMAIN patient_def.identifiers |->
                        Identifier(patient_def.identifiers[n].system,
                                   patient_def.identifiers[n].value)]
  IN Resource("Patient", patient_id,
              IF identifiers = <<>> THEN <<Identifier(MrnSystem, mrn_uuid)>> ELSE identifiers,
              Dict([gender |-> Str(FALSE, <<patient_def.gender>>)]))

\* Whether create_patient draws from the stream (lines 87-93).
DrawsMrn(patient_def) == patient_def.identifiers = <<>>

\* Lines 209-230.
CreateCondition(patient_ref, condition_def, condition_id) ==
  Resource("Condition", condition_id, <<>>,
           Dict([subject |-> Reference(patient_ref),
                 code |-> Str(FALSE, <<condition_def.code>>)]))

\* Lines 292-330.  effective_datetime is the time point the caller passes.
CreateObservation(patient_ref, observation_def, observation_id, effective_datetime) ==
  Resource("Observation", observation_id, <<>>,
           Dict([subject |-> Reference(patient_ref),
                 code |-> Str(FALSE, <<observation_def.loinc>>),
                 effectiveDateTime |-> effective_datetime]))

\* medication_def.get(key) or medication_def.get(<camelCase key>) is not None,
\* for a definition written with the snake_case keys: the value is there and
\* it is not 0, which "or" takes for absent.
Given(medication_def, key) == key \in medication_def.keys /\ medication_def[key] # 0

\* Lines 371-376: the days before now at which the order starts.
MedicationStart(medication_def) ==
  IF Given(medication_def, "start_days_ago")
  THEN medication_def.start_days_ago
  ELSE IF Given(medication_def, "completed_days_ago") /\ Given(medication_def, "duration_days")
  THEN medication_def.completed_days_ago + medication_def.duration_days
  ELSE 0

\* Lines 378-383: the end of the order, Unset for None.
MedicationEnd(medication_def) ==
  IF Given(medication_def, "completed_days_ago")
  THEN DaysAgo(medication_def.completed_days_ago)
  ELSE IF Given(medication_def, "duration_days")
  THEN DaysAgo(MedicationStart(medication_def) - medication_def.duration_days)
  ELSE Unset

\* Lines 362-463.  medication is a CodeableReference: its own "reference" is
\* unset; boundsPeriod holds the start and, when there is one, the end.
CreateMedicationRequest(patient_ref, medication_def, medication_id) ==
  Resource("MedicationRequest", medication_id, <<>>,
           Dict([subject |-> Reference(patient_ref),
                 medication |-> Dict([concept |-> Str(FALSE, <<medication_def.rxnorm>>),
                                      reference |-> Unset]),
                 boundsPeriod |-> Dict([start |-> DaysAgo(MedicationStart(medication_def)),
                                        end |-> MedicationEnd(medication_def)])]))

\* Lines 535-590.  The period starts days_ago days back, a draw from the stream
\* when the definition gives none (line 535).
CreateEncounter(patient_ref, encounter_def, encounter_id) ==
  Resource("Encounter", encounter_id, <<>>,
           Dict([subject |-> Reference(patient_ref),
                 actualPeriod |->
                   Dict([start |-> IF "days_ago" \in encounter_def.keys
                                   THEN DaysAgo(encounter_def.days_ago)
                                   ELSE RandintDaysAgo(1, 90)])]))

\* Lines 623-634: the code of a relationship given as a string.
RelationshipCode(relationship) ==
  CASE relationship = "parent" -> "PRN"
    [] relationship = "child" -> "CHILD"
    [] relationship = "spouse" -> "SPS"
    [] relationship = "sibling" -> "SIB"
    [] relationship = "guardian" -> "GUARD"
    [] relationship = "emergency" -> "C"
    [] OTHER -> relationship

\* Lines 610-698.
CreateRelatedPerson(patient_ref, related_person_def, related_person_id) ==
  Resource("RelatedPerson", related_person_id,
           [n \in DOMAIN related_person_def.identifiers |->
              Identifier(related_person_def.identifiers[n].system,
                         related_person_def.identifiers[n].value)],
           Dict([patient |-> Reference(patient_ref),
                 relationship |->
                   Str(FALSE, <<RelationshipCode(related_person_def.relationship)>>)]))

\* result lists the observation references last to first.
CreateDiagnosticReportReversed(patient_ref, diagnostic_report_def, observation_refs, report_id) ==
  Resource("DiagnosticReport", report_id, <<>>,
           Dict([subject |-> Reference(patient_ref),
                 result |-> List([n \in DOMAIN observation_refs |->
                                    Reference(observation_refs[Len(observation_refs) + 1 - n])])]))

\* Lines 720-794: result is set only when there are observation references.
CreateDiagnosticReport(patient_ref, diagnostic_report_def, observation_refs, report_id) ==
  Resource("DiagnosticReport", report_id, <<>>,
           Dict(IF observation_refs = <<>>
                THEN [subject |-> Reference(patient_ref)]
                ELSE [subject |-> Reference(patient_ref),
                      result |-> List([n \in DOMAIN observation_refs |->
                                         Reference(observation_refs[n])])]))

\* Lines 814-872.  days_ago defaults to a draw (line 828); doseNumber, when given
\* and not zero, becomes doseQuantity (lines 841-842).
CreateImmunization(patient_ref, immunization_def, immunization_id) ==
  Resource("Immunization", immunization_id, <<>>,
           Dict([patient |-> Reference(patient_ref),
                 occurrenceDateTime |->
                   (IF "days_ago" \in immunization_def.keys
                    THEN DaysAgo(immunization_def.days_ago)
                    ELSE RandintDaysAgo(30, 365)),
                 doseQuantity |->
                   (IF "doseNumber" \in immunization_def.keys
                       /\ immunization_def.doseNumber # 0
                    THEN Quantity(immunization_def.doseNumber)
                    ELSE Unset)]))

\* Lines 892-987: subscriber defaults to the beneficiary, the payor to a fixed
\* organization.
CreateCoverage(patient_ref, coverage_def, coverage_id) ==
  Resource("Coverage", coverage_id, <<>>,
           Dict([beneficiary |-> Reference(patient_ref),
                 subscriber |-> Reference(IF coverage_def.subscriber # EmptyString
                                          THEN coverage_def.subscriber
                                          ELSE patient_ref),
                 paymentBy |-> List(<<Dict([party |->
                     Reference(RelRef("Organization", "default-insurance"))])>>)]))

\* ------------------------------------------------------------------ Generator._apply_rule
\* The expansion state threaded through a rule: the resources and the urn_mapping
\* built so far, and n, the number of rng.uuid() calls made so far.
Expansion(rs, mapping, n) == [resources |-> rs, urn_mapping |-> mapping, n |-> n]

\* f"urn:uuid:{patient_ref}" if request_method == "POST" else f"Patient/{patient_ref}"
PatientReference(patient_ref, method) ==
  IF method = "POST" THEN UrnUuid(patient_ref) ELSE RelRef("Patient", patient_ref)

\* A variant that draws the urn without recording it in urn_mapping.
DrawIdentityUnrecorded(st, method) ==
  [id |-> RngUuid(st.n + 1), urn |-> RngUuid(st.n + 2),
   st |-> Expansion(st.resources, st.urn_mapping, st.n + 2)]

\* x_id = self.rng.uuid(); if request_method == "POST": x_urn = self.rng.uuid();
\* urn_mapping[x_id] = x_urn.  Yields the id, the urn and the state after the draws.
DrawIdentity(st, method) ==
  LET id == RngUuid(st.n + 1)
      urn == RngUuid(st.n + 2)
  IN IF method = "POST"
     THEN [id |-> id, urn |-> urn,
           st |-> Expansion(st.resources, DictSet(st.urn_mapping, id, urn), st.n + 2)]
     ELSE [id |-> id, urn |-> id,
           st |-> Expansion(st.resources, st.urn_mapping, st.n + 1)]

AppendResource(st, r) == Expansion(Append(st.resources, r), st.urn_mapping, st.n)

\* round(num / den) as Python rounds: to the nearest integer, a tie to the even one.
RoundHalfEven(num, den) ==
  LET q == num \div den
      r == num % den
  IN IF 2 * r < den THEN q
     ELSE IF 2 * r > den THEN q + 1
     ELSE IF q % 2 = 0 THEN q ELSE q + 1

\* A variant that takes qty as given, without the minimum of one.
GenerateTimePointsUnclamped(times) ==
  [n \in 1..(IF "qty" \in times.keys THEN times.qty ELSE 1) |-> RandintDaysAgo(1, 30)]

\* Lines 649-681: _generate_time_points.  times.keys is the set of keys the
\* dict holds; the time points are given as days before now.
GenerateTimePoints(times) ==
  LET qty == Max(IF times.keys # {} /\ "qty" \in times.keys THEN times.qty ELSE 1, 1)
  IN IF times.keys = {}
     THEN [n \in 1..qty |-> RandintDaysAgo(1, 30)]
     ELSE IF "days_ago" \in times.keys
     THEN LET base == times.days_ago
              spacing == IF "spacing_days" \in times.keys THEN times.spacing_days
                         ELSE Max(base \div Max(qty - 1, 1), 1)
          IN IF qty = 1 THEN <<DaysAgo(base)>>
             ELSE [n \in 1..qty |-> DaysAgo(base + (n - 1) * spacing)]
     ELSE IF "lookback_months" \in times.keys
     THEN LET total_days == times.lookback_months * 30
          IN IF qty = 1 THEN <<RandintDaysAgo(0, Max(total_days, 1))>>
             ELSE [n \in 1..qty |->
                     DaysAgo(RoundHalfEven((n - 1) * total_days, Max(qty - 1, 1)))]
     ELSE IF "lookback_days" \in times.keys
     THEN [n \in 1..qty |-> RandintDaysAgo(0, Max(times.lookback_days, 1))]
     ELSE [n \in 1..qty |-> RandintDaysAgo(1, 30)]

\* len(occurrences): how often the loop over the time points runs.
TimePointCount(times) == Len(GenerateTimePoints(times))

\* Lines 300-312.
AddCondition(def, st, ctx) ==
  LET d == DrawIdentity(st, ctx.method)
  IN AppendResource(d.st, CreateCondition(PatientReference(ctx.patient_ref, ctx.method),
                                          def, d.id))

\* Lines 319-332: the occurrence of an observation at time point i (0-based).
AddObservation(def, i, st, ctx) ==
  LET d == DrawIdentity(st, ctx.method)
  IN AppendResource(d.st, CreateObservation(PatientReference(ctx.patient_ref, ctx.method),
                                            def, d.id, GenerateTimePoints(def.times)[i + 1]))

\* Lines 335-347.
AddMedication(def, st, ctx) ==
  LET d == DrawIdentity(st, ctx.method)
  IN AppendResource(d.st, CreateMedicationRequest(PatientReference(ctx.patient_ref, ctx.method),
                                                  def, d.id))

\* Lines 376-383: the definition dose i (0-based) is built from.
AdjustedImmunizationDef(def, i) ==
  IF ("qty" \in def.keys /\ def.qty > 1) /\ "days_ago" \in def.keys
  THEN [def EXCEPT !.keys = @ \cup {"doseNumber"},
                   !.days_ago = @ - (i * 30),
                   !.doseNumber = i + 1]
  ELSE def

\* Lines 369-390: dose i (0-based).
AddImmunization(def, i, st, ctx) ==
  LET d == DrawIdentity(st, ctx.method)
  IN AppendResource(d.st, CreateImmunization(PatientReference(ctx.patient_ref, ctx.method),
                                             AdjustedImmunizationDef(def, i), d.id))

\* Lines 393-405.
AddCoverage(def, st, ctx) ==
  LET d == DrawIdentity(st, ctx.method)
  IN AppendResource(d.st, CreateCoverage(PatientReference(ctx.patient_ref, ctx.method),
                                         def, d.id))

\* encounter_def.get("spread_months", 12)
SpreadMonths(def) == IF "spread_months" \in def.keys THEN def.spread_months ELSE 12

\* encounter_def.get("qty", 1)
EncounterQty(def) == IF "qty" \in def.keys THEN def.qty ELSE 1

\* Visit i lies i + 1 intervals from the base.
AdjustedEncounterDefFromOne(def, i) ==
  IF EncounterQty(def) > 1 /\ SpreadMonths(def) > 0
  THEN [def EXCEPT !.keys = @ \cup {"days_ago"},
                   !.days_ago = (IF "days_ago" \in def.keys THEN def.days_ago ELSE 0)
                                + (i + 1) * ((SpreadMonths(def) * 30) \div EncounterQty(def))]
  ELSE def

\* Lines 420-424: the definition visit i (0-based) is built from;
\* days_between = (spread_months * 30) // qty.
AdjustedEncounterDef(def, i) ==
  IF EncounterQty(def) > 1 /\ SpreadMonths(def) > 0
  THEN [def EXCEPT !.keys = @ \cup {"days_ago"},
                   !.days_ago = (IF "days_ago" \in def.keys THEN def.days_ago ELSE 0)
                                + i * ((SpreadMonths(def) * 30) \div EncounterQty(def))]
  ELSE def

\* Lines 413-432: visit i (0-based).
AddEncounter(def, i, st, ctx) ==
  LET d == DrawIdentity(st, ctx.method)
  IN AppendResource(d.st, CreateEncounter(PatientReference(ctx.patient_ref, ctx.method),
                                          AdjustedEncounterDef(def, i), d.id))

\* Lines 511-518: the keys of inverse_relationship.
InverseTableKeys == {"parent", "child", "spouse", "sibling", "guardian", "emergency"}

\* Lines 511-521.
InverseRelationship(relationship) ==
  CASE relationship = "parent" -> "child"
    [] relationship = "child" -> "parent"
    [] relationship = "spouse" -> "spouse"
    [] relationship = "sibling" -> "sibling"
    [] relationship = "guardian" -> "child"
    [] relationship = "emergency" -> "emergency"
    [] OTHER -> relationship

\* "http://example.org/fhir/related-person-patient"
RelatedPersonPatientSystem == "http://example.org/fhir/related-person-patient"

\* Lines 471-584: _create_symmetrical_related_persons.  Its resources and mapping
\* are merged into the rule's by extend / update.
CreateSymmetricalRelatedPersons(def, st, ctx) ==
  LET related_patient_id == RngUuid(st.n + 1)
      related_patient_urn == IF ctx.method = "POST" THEN RngUuid(st.n + 2)
                             ELSE related_patient_id
      n1 == IF ctx.method = "POST" THEN st.n + 2 ELSE st.n + 1
      mapping1 == IF ctx.method = "POST"
                  THEN DictSet(EmptyDict, related_patient_id, related_patient_urn)
                  ELSE EmptyDict
      related_patient_def == [gender |-> def.gender, identifiers |-> def.identifiers]
      related_patient == CreatePatient(related_patient_def, related_patient_id,
                                       RngUuid(n1 + 1))
      n2 == IF DrawsMrn(related_patient_def) THEN n1 + 1 ELSE n1
      d1 == DrawIdentity(Expansion(<<related_patient>>, mapping1, n2), ctx.method)
      related_person1 ==
        CreateRelatedPerson(PatientReference(ctx.patient_ref, ctx.method),
                            [relationship |-> def.relationship,
                             identifiers |-> <<Identifier(RelatedPersonPatientSystem,
                                                          related_patient_id)>>],
                            d1.id)
      d2 == DrawIdentity(AppendResource(d1.st, related_person1), ctx.method)
      related_person2 ==
        CreateRelatedPerson(IF ctx.method = "POST" THEN UrnUuid(related_patient_urn)
                            ELSE RelRef("Patient", related_patient_id),
                            [relationship |-> InverseRelationship(def.relationship),
                             identifiers |-> <<Identifier(RelatedPersonPatientSystem,
                                                          ctx.patient.id)>>],
                            d2.id)
      own == AppendResource(d2.st, related_person2)
  IN Expansion(st.resources \o own.resources,
               DictUpdate(st.urn_mapping, own.urn_mapping), own.n)

\* Lines 609-630: the observations of a report, one per time point of each
\* definition; refs collects their references in order.
RECURSIVE ReportObservations(_, _, _, _, _)
ReportObservations(obs_defs, left, acc, refs, ctx) ==
  IF obs_defs = <<>>
  THEN [st |-> acc, refs |-> refs]
  ELSE IF left = 0
  THEN ReportObservations(Tail(obs_defs),
                          IF Len(obs_defs) > 1 THEN TimePointCount(obs_defs[2].times) ELSE 0,
                          acc, refs, ctx)
  ELSE LET d == DrawIdentity(acc, ctx.method)
           obs_ref == IF ctx.method = "POST" THEN UrnUuid(d.urn)
                      ELSE RelRef("Observation", d.id)
           occurrences == GenerateTimePoints(Head(obs_defs).times)
           observation == CreateObservation(PatientReference(ctx.patient_ref, ctx.method),
                                            Head(obs_defs), d.id,
                                            occurrences[Len(occurrences) - left + 1])
       IN ReportObservations(obs_defs, left - 1, AppendResource(d.st, observation),
                             Append(refs, obs_ref), ctx)

\* Lines 604-647: _create_diagnostic_report_with_observations.
CreateDiagnosticReportWithObservations(def, st, ctx) ==
  LET obs == ReportObservations(def.observations,
                                IF def.observations = <<>> THEN 0
                                ELSE TimePointCount(def.observations[1].times),
                                Expansion(<<>>, EmptyDict, st.n), <<>>, ctx)
      d == DrawIdentity(obs.st, ctx.method)
      diagnostic_report ==
        CreateDiagnosticReport(PatientReference(ctx.patient_ref, ctx.method),
                               def, obs.refs, d.id)
      own == AppendResource(d.st, diagnostic_report)
  IN Expansion(st.resources \o own.resources,
               DictUpdate(st.urn_mapping, own.urn_mapping), own.n)

\* One pass of the body of a category's loop (of its inner loop over time
\* points, doses or visits where there is one).
AddOne(category, def, i, st, ctx) ==
  CASE category = "add_conditions" -> AddCondition(def, st, ctx)
    [] category = "add_observations" -> AddObservation(def, i, st, ctx)
    [] category = "meds" -> AddMedication(def, st, ctx)
    [] category = "related_persons" -> CreateSymmetricalRelatedPersons(def, st, ctx)
    [] category = "diagnostic_reports" -> CreateDiagnosticReportWithObservations(def, st, ctx)
    [] category = "immunizations" -> AddImmunization(def, i, st, ctx)
    [] category = "coverage" -> AddCoverage(def, st, ctx)
    [] category = "encounters" -> AddEncounter(def, i, st, ctx)

\* How many times the body runs for one definition: the time points of an
\* observation (line 317), qty doses (line 368), qty visits (line 410).
Repetitions(category, def) ==
  CASE category = "add_observations" -> TimePointCount(def.times)
    [] category = "immunizations" -> (IF "qty" \in def.keys THEN def.qty ELSE 1)
    [] category = "encounters" -> EncounterQty(def)
    [] OTHER -> 1

\* for i in range(qty): the passes i = qty - left, ..., qty - 1.
RECURSIVE Repeat(_, _, _, _, _)
Repeat(category, def, left, st, ctx) ==
  IF left <= 0 THEN st
  ELSE Repeat(category, def, left - 1,
              AddOne(category, def, Repetitions(category, def) - left, st, ctx), ctx)

\* for x_def in then.get(category, []): ...
RECURSIVE AddAll(_, _, _, _)
AddAll(category, defs, st, ctx) ==
  IF defs = <<>> THEN st
  ELSE AddAll(category, Tail(defs),
              Repeat(category, Head(defs), Repetitions(category, Head(defs)), st, ctx), ctx)

\* The categories taken last to first.
CategoriesReversed == <<"encounters", "coverage", "immunizations", "diagnostic_reports",
                        "related_persons", "meds", "add_observations", "add_conditions">>

\* The order in which _apply_rule goes through the categories of then.
Categories == <<"add_conditions", "add_observations", "meds", "related_persons",
                "diagnostic_reports", "immunizations", "coverage", "encounters">>

RECURSIVE AddCategories(_, _, _, _)
AddCategories(cats, then, st, ctx) ==
  IF cats = <<>> THEN st
  ELSE AddCategories(Tail(cats), then, AddAll(Head(cats), then[Head(cats)], st, ctx), ctx)

\* Lines 295-434: the resources and the urn_mapping of one rule, and the stream
\* position after it.
ApplyRule(rule, patient_res, patient_ref, method, n) ==
  AddCategories(Categories, rule.then, Expansion(<<>>, EmptyDict, n),
                [patient |-> patient_res, patient_ref |-> patient_ref, method |-> method])

\* A condition is given by its form and the number N in it: "true", "age >"
\* (the text "age > N"), "age >=" (the text "age >= N") or any other form.
\* Line 277: "age >" in condition.
ContainsAgeGreater(condition) == condition \in {"age >", "age >="}

\* Line 278: int(condition.split(">")[1].strip()) raises ValueError unless what
\* follows the first ">" is a number.
ThresholdRaises(rule) ==
  ContainsAgeGreater(rule.when.condition) /\ rule.when.condition # "age >"

\* Texts that int() reads as an integer.
IntegerTexts == {"7", "120"}

\* resource_factory.py line 307: with value_type "integer" (or "int"),
\* int(observation_def.get("value", value)) raises ValueError when the value
\* given is a text that is not an integer.
ObservationRaises(observation_def) ==
  /\ observation_def.value_type \in {"integer", "int"}
  /\ observation_def.value \notin IntegerTexts

\* Building the records of a rule raises when one of its observations does,
\* under add_observations or inside a diagnostic report: every such definition
\* is built at least once, and nothing in _apply_rule catches the error.
RuleRaises(rule) ==
  \/ \E n \in DOMAIN rule.then.add_observations :
        ObservationRaises(rule.then.add_observations[n])
  \/ \E r \in DOMAIN rule.then.diagnostic_reports :
        \E n \in DOMAIN rule.then.diagnostic_reports[r].observations :
          ObservationRaises(rule.then.diagnostic_reports[r].observations[n])

\* The loop over the rules goes on to the next rule whatever happened.
AfterRuleSwallowed(raised) == "rules"

\* Neither _generate_single_patient, _generate_patient nor generate has a
\* try/except: an error raised under a rule ends generate.
AfterRule(raised) == IF raised THEN "value_error" ELSE "rules"

\* Lines 269-281, where no error is raised.
EvaluateRuleCondition(rule, context) ==
  IF rule.when.condition = "true" THEN TRUE
  ELSE IF ContainsAgeGreater(rule.when.condition) THEN context.age > rule.when.threshold
  ELSE FALSE

\* Lines 692-709: _filter_resources.
FilterResources(rs, filter) ==
  IF filter = {} THEN rs
  ELSE LET filtered == SelectSeq(rs, LAMBDA r : r.rtype \in filter)
           patients == SelectSeq(rs, LAMBDA r : r.rtype = "Patient")
       IN IF /\ filtered # <<>>
             /\ \A n \in DOMAIN filtered : filtered[n].rtype # "Patient"
             /\ patients # <<>>
          THEN <<patients[1]>> \o filtered
          ELSE filtered

\* ------------------------------------------------------------------ state
VARIABLES
  pc,               \* where the run stands
  api,              \* the entry point called: create_bundle, create_bundles
  resources,        \* the record list handed to the assembler
  bundle_type,      \* argument
  bundle_size,      \* argument (create_bundles)
  request_method,   \* argument
  urn_mapping,      \* the caller's identity map, as handed over
  i,                \* create_bundles: start of the next chunk
  chunk,            \* create_bundle: its resources argument
  combined_mapping, \* create_bundle: its working copy of the map
  bundle_id,        \* create_bundle: the id drawn for the bundle
  entries,          \* create_bundle: the entries built so far
  bundles,          \* the bundles finished so far
  uuid4_calls,      \* number of uuid.uuid4() calls made so far
  data,             \* _update_references: the structure it rewrites in place
  data_in,          \* the structure as first handed to _update_references
  rewrites,         \* number of _update_references passes made over data
  profile,          \* Generator.profile: mode, single_patient, rules
  resource_filter,  \* Generator.resource_filter, {} when unset
  count,            \* generate: argument
  index,            \* generate: the cohort loop's i
  rule_index,       \* _generate_patient: rules applied so far
  demographics,     \* _generate_patient: the subject's drawn context
  patient,          \* _generate_patient: the subject's Patient
  patient_ref,      \* _generate_patient: patient_urn in POST mode, else patient_id
  patient_resources,\* _generate_patient: its resources
  patient_mapping,  \* _generate_patient: its urn_mapping
  all_resources,    \* generate: all_resources
  all_urn_mappings, \* generate: all_urn_mappings
  rng_calls,        \* number of SeededRandom.uuid() calls made so far
  result,           \* what generate returned
  seed,             \* the demographics the seeded stream yields, subject by subject
  runs              \* number of Generators built from the profile and the seed so far

asmVars == <<api, resources, bundle_type, bundle_size, request_method, urn_mapping,
             i, chunk, combined_mapping, bundle_id, entries, bundles, uuid4_calls>>
refVars == <<data, data_in, rewrites>>
genVars == <<profile, resource_filter, count, index, rule_index, demographics, patient,
             patient_ref, patient_resources, patient_mapping, all_resources,
             all_urn_mappings, rng_calls, result, seed, runs>>
vars == <<pc, asmVars, refVars, genVars>>

\* uuid.uuid4(): values never seen before, numbered by call.
OsUuids == <<"o01", "o02", "o03", "o04", "o05", "o06", "o07", "o08", "o09", "o10",
             "o11", "o12", "o13", "o14", "o15", "o16", "o17", "o18", "o19", "o20",
             "o21", "o22", "o23", "o24", "o25", "o26", "o27", "o28", "o29", "o30",
             "o31", "o32", "o33", "o34", "o35", "o36", "o37", "o38", "o39", "o40",
             "o41", "o42", "o43", "o44", "o45", "o46", "o47", "o48", "o49", "o50">>
Uuid4(n) == OsUuids[n]

\* bundle_size: int = 100
DefaultBundleSize == 100

\* No context drawn: context.get("age", 0).
NoDemographics == [age |-> 0, gender |-> "unknown"]

\* No Generator constructed: the assembler or the rewrite is used on its own.
NoProfile == [mode |-> None, single_patient |-> None, rules |-> <<>>]

\* A resource variable that holds nothing yet.
NoResource == Resource(None, None, <<>>, Dict(EmptyDict))

NoResult == [kind |-> None, bundles |-> <<>>]

\* No Generator takes part in the run.
NoGenerator ==
  /\ profile = NoProfile /\ resource_filter = {} /\ count = 0 /\ index = 0 /\ rule_index = 0
  /\ demographics = NoDemographics /\ patient = NoResource /\ patient_ref = None
  /\ patient_resources = <<>> /\ patient_mapping = EmptyDict
  /\ all_resources = <<>> /\ all_urn_mappings = EmptyDict /\ rng_calls = 0
  /\ result = NoResult /\ seed = <<>> /\ runs = 0

\* No assembler call is under way.
AssemblerIdle ==
  /\ i = 0 /\ chunk = <<>> /\ combined_mapping = EmptyDict /\ bundle_id = None
  /\ entries = <<>> /\ bundles = <<>> /\ uuid4_calls = 0

\* _update_references is not called on its own.
NoRewrite == data = None /\ data_in = None /\ rewrites = 0

\* ------------------------------------------------------------------ create_bundle
\* Lines 32-39: the checks create_bundle makes before anything else.
ValidArguments(btype, method) ==
  /\ btype \in {"transaction", "collection"}
  /\ btype = "transaction" => method \in {"POST", "PUT", "CONDITIONAL"}

Bundle(id, btype, entry) == [id |-> id, type |-> btype, entry |-> entry]

\* Lines 32-44: create_bundle is entered with `rs` as its resources.
EnterCreateBundle(rs) ==
  IF ValidArguments(bundle_type, request_method)
  THEN /\ pc' = "entry"
       /\ chunk' = rs
       /\ bundle_id' = Uuid4(uuid4_calls + 1)
       /\ uuid4_calls' = uuid4_calls + 1
       /\ combined_mapping' = urn_mapping
       /\ entries' = <<>>
       /\ UNCHANGED bundles
  ELSE /\ pc' = "error"
       /\ bundles' = <<>>
       /\ UNCHANGED <<chunk, bundle_id, uuid4_calls, combined_mapping, entries>>

\* create_bundle called directly.
CallCreateBundle ==
  /\ pc = "call"
  /\ api = "create_bundle"
  /\ EnterCreateBundle(resources)
  /\ UNCHANGED <<api, resources, bundle_type, bundle_size, request_method, urn_mapping, i>>
  /\ UNCHANGED <<refVars, genVars>>

\* combined_mapping = urn_mapping: the working map is the caller's dict itself,
\* and what the entry writes to it the caller sees.
UrnMappingShared(mapping, combined) == combined

\* Line 44: combined_mapping = dict(urn_mapping or {}), a dict of its own.  The
\* caller's dict after _create_bundle_entry has written to the working map.
UrnMappingAfter(mapping, combined) == mapping

\* Lines 129-135: the references are rewritten in resource.model_dump(), a
\* structure of its own, and the entry's record is built from it.  The
\* caller's record after the entry is built.
ResourceAfter(resource, entry) == resource

\* Lines 46-48: one turn of the loop over the resources.
AddEntry ==
  /\ pc = "entry"
  /\ Len(entries) < Len(chunk)
  /\ LET r == CreateBundleEntry(chunk[Len(entries) + 1], bundle_type, request_method,
                                combined_mapping, Uuid4(uuid4_calls + 1))
         at == (IF api = "create_bundles" THEN i ELSE 0) + Len(entries) + 1
     IN /\ entries' = Append(entries, r.entry)
        /\ combined_mapping' = r.mapping
        /\ uuid4_calls' = IF r.minted THEN uuid4_calls + 1 ELSE uuid4_calls
        /\ urn_mapping' = UrnMappingAfter(urn_mapping, r.mapping)
        /\ resources' = [resources EXCEPT ![at] = ResourceAfter(@, r.entry)]
  /\ UNCHANGED <<pc, api, bundle_type, bundle_size, request_method,
                 i, chunk, bundle_id, bundles, refVars, genVars>>

\* Lines 50-60, and the caller's bundles.append / i += bundle_size.
FinishBundle ==
  /\ pc = "entry"
  /\ Len(entries) = Len(chunk)
  /\ bundles' = Append(bundles, Bundle(bundle_id, bundle_type, entries))
  /\ IF api = "create_bundle"
     THEN pc' = "done" /\ UNCHANGED i
     ELSE pc' = "chunks" /\ i' = i + bundle_size
  /\ UNCHANGED <<api, resources, bundle_type, bundle_size, request_method, urn_mapping,
                 chunk, combined_mapping, bundle_id, entries, uuid4_calls, refVars, genVars>>

\* ------------------------------------------------------------------ create_bundles
\* A variant that takes one record too many: resources[a:b + 1].
SliceInclusive(rs, a, b) ==
  LET hi == IF b + 1 < Len(rs) THEN b + 1 ELSE Len(rs)
  IN IF a >= hi THEN <<>> ELSE SubSeq(rs, a + 1, hi)

\* resources[a:b] with 0-based a, as a 1-based sequence.
Slice(rs, a, b) ==
  LET hi == IF b < Len(rs) THEN b ELSE Len(rs)
  IN IF a >= hi THEN <<>> ELSE SubSeq(rs, a + 1, hi)

\* Line 82.
CallCreateBundles ==
  /\ pc = "call"
  /\ api = "create_bundles"
  /\ pc' = "chunks"
  /\ i' = 0
  /\ bundles' = <<>>
  /\ UNCHANGED <<api, resources, bundle_type, bundle_size, request_method, urn_mapping,
                 chunk, combined_mapping, bundle_id, entries, uuid4_calls, refVars, genVars>>

\* Lines 85-87: the next chunk goes to create_bundle.
NextChunk ==
  /\ pc = "chunks"
  /\ i < Len(resources)
  /\ EnterCreateBundle(Slice(resources, i, i + bundle_size))
  /\ UNCHANGED <<api, resources, bundle_type, bundle_size, request_method, urn_mapping, i>>
  /\ UNCHANGED <<refVars, genVars>>

\* Lines 91-92: no chunk was made, an empty bundle is.
EmptyBundle ==
  /\ pc = "chunks"
  /\ i >= Len(resources)
  /\ bundles = <<>>
  /\ EnterCreateBundle(<<>>)
  /\ UNCHANGED <<api, resources, bundle_type, bundle_size, request_method, urn_mapping, i>>
  /\ UNCHANGED <<refVars, genVars>>

\* Line 94.
ReturnBundles ==
  /\ pc = "chunks"
  /\ i >= Len(resources)
  /\ bundles # <<>>
  /\ pc' = "done"
  /\ UNCHANGED <<asmVars, refVars, genVars>>

\* ------------------------------------------------------------------ the assembler, called directly
\* The records a caller hands over.
PatientA ==
  Resource("Patient", "p1", <<Identifier("sysA", "v1"), Identifier("sysB", "v2")>>,
           Dict([gender |-> Str(FALSE, <<"female">>)]))
PatientB ==
  Resource("Patient", "p2", <<>>, Dict([gender |-> Str(FALSE, <<"male">>)]))
PatientNoId ==
  Resource("Patient", None, <<>>, Dict([gender |-> Str(FALSE, <<"unknown">>)]))
ConditionA ==
  Resource("Condition", "c1", <<>>, Dict([subject |-> Reference(RelRef("Patient", "p1"))]))
RelatedPersonA ==
  Resource("RelatedPerson", "rp1", <<Identifier("sysR", "p1")>>,
           Dict([patient |-> Reference(RelRef("Patient", "p2"))]))
ReportA ==
  Resource("DiagnosticReport", "d1", <<>>,
           Dict([subject |-> Reference(UrnUuid("p1")),
                 result |-> List(<<Reference(RelRef("Observation", "c1")),
                                   Reference(Str(FALSE, <<"http:", "", "host", "Patient", "p1">>))>>)]))

SampleResources == {PatientA, PatientB, PatientNoId, ConditionA, RelatedPersonA, ReportA}

\* Lists of distinct records (a durable identifier is not reused within a run).
ResourceLists ==
  {rs \in UNION {[1..n -> SampleResources] : n \in 0..MaxRecords} :
     \A a, b \in DOMAIN rs : a # b => rs[a] # rs[b]}

\* The identity maps a caller hands over (None and {} are both the empty map
\* after dict(urn_mapping or {})).
SampleMappings ==
  { EmptyDict,
    [k \in {"p1"} |-> "u1"],
    [k \in {"p1", "p2", "c1", "rp1", "d1"} |->
       CASE k = "p1" -> "u1" [] k = "p2" -> "u2" [] k = "c1" -> "u3"
         [] k = "rp1" -> "u4" [] k = "d1" -> "u5"] }

BundleTypes == {"transaction", "collection", "batch"}
RequestMethods == {"POST", "PUT", "CONDITIONAL", "DELETE"}

AsmInit ==
  /\ pc = "call"
  /\ api \in {"create_bundle", "create_bundles"}
  /\ resources \in ResourceLists
  /\ bundle_type \in BundleTypes
  /\ request_method \in RequestMethods
  /\ bundle_size \in (IF api = "create_bundle" THEN {DefaultBundleSize} ELSE 1..MaxBundleSize)
  /\ urn_mapping \in SampleMappings
  /\ AssemblerIdle
  /\ NoRewrite
  /\ NoGenerator

AsmNext ==
  \/ CallCreateBundle
  \/ CallCreateBundles
  \/ NextChunk
  \/ EmptyBundle
  \/ AddEntry
  \/ FinishBundle
  \/ ReturnBundles

AsmSpec == AsmInit /\ [][AsmNext]_vars

\* ------------------------------------------------------------------ Generator.generate
\* Profiles.  A rule is {when: {condition}, then: {category: [definitions]}}.
When(condition, threshold) == [condition |-> condition, threshold |-> threshold]

NoThen == [c \in {Categories[n] : n \in DOMAIN Categories} |-> <<>>]

Rule(when, then) ==
  [when |-> when,
   then |-> [c \in DOMAIN NoThen |-> IF c \in DOMAIN then THEN then[c] ELSE <<>>]]

\* A times dict: the keys it holds and their values (0 for a key it does not hold).
Times(keys, qty, days_ago, spacing_days, lookback_months, lookback_days) ==
  [keys |-> keys, qty |-> qty, days_ago |-> days_ago, spacing_days |-> spacing_days,
   lookback_months |-> lookback_months, lookback_days |-> lookback_days]

\* {} or no times at all.
NoTimes == Times({}, 0, 0, 0, 0, 0)

\* {"qty": qty}
TimesQty(qty) == Times({"qty"}, qty, 0, 0, 0, 0)

\* The timing specifications tried: every shape _generate_time_points tells
\* apart, with and without qty, qty from 0 up.
TimingSpecs ==
  {NoTimes}
  \cup {Times({"days_ago"}, 0, d, 0, 0, 0) : d \in {0, 90}}
  \cup {Times({"lookback_months"}, 0, 0, 0, m, 0) : m \in {0, 3}}
  \cup {Times({"lookback_days"}, 0, 0, 0, 0, 30)}
  \cup {Times({"spacing_days"}, 0, 0, 7, 0, 0)}
  \cup UNION {
       {TimesQty(q), Times({"qty", "lookback_days"}, q, 0, 0, 0, 30),
        Times({"qty", "days_ago", "spacing_days"}, q, 10, 7, 0, 0)}
       \cup {Times({"qty", "days_ago"}, q, d, 0, 0, 0) : d \in {0, 90}}
       \cup {Times({"qty", "lookback_months"}, q, 0, 0, m, 0) : m \in {0, 3}}
       : q \in 0..MaxQty}

ConditionDef == [code |-> "44054006"]
ObservationDef(times) ==
  [loinc |-> "4548-4", times |-> times, value_type |-> "quantity", value |-> None]
\* {"loinc": ..., "value_type": "integer", "value": value}
IntegerObservationDef(value) ==
  [loinc |-> "8480-6", times |-> NoTimes, value_type |-> "integer", value |-> value]
\* A medication definition: the keys it holds and their values.
MedicationDefWith(keys, start_days_ago, completed_days_ago, duration_days) ==
  [rxnorm |-> "860975", keys |-> keys, start_days_ago |-> start_days_ago,
   completed_days_ago |-> completed_days_ago, duration_days |-> duration_days]
MedicationDef == MedicationDefWith({}, 0, 0, 0)

\* The medication definitions tried: each of the three date keys absent or
\* given, start_days_ago and completed_days_ago given as 0 too.
MedicationDefs ==
  {MedicationDefWith(s \cup c \cup d, sv, cv, 30) :
     s \in {{}, {"start_days_ago"}}, c \in {{}, {"completed_days_ago"}},
     d \in {{}, {"duration_days"}}, sv \in {0, 7}, cv \in {0, 5}}
RelatedDef(relationship) ==
  [relationship |-> relationship, gender |-> "female", identifiers |-> <<>>]
ReportDef == [observations |-> <<ObservationDef(TimesQty(2)), ObservationDef(NoTimes)>>]
CoverageDef(subscriber) == [subscriber |-> subscriber]
\* An encounter definition: the keys it holds and their values.
EncounterDefWith(keys, qty, spread_months, days_ago) ==
  [keys |-> keys, qty |-> qty, spread_months |-> spread_months, days_ago |-> days_ago]
\* {"qty": qty}
EncounterDef(qty) == EncounterDefWith({"qty"}, qty, 0, 0)

\* The encounter definitions tried: qty absent and from 0 up (4 visits are the
\* fewest that do not divide a month of 30 days), spread_months absent, 0 and
\* 1, with and without a base days_ago.
EncounterDefs ==
  {EncounterDefWith(k \cup s \cup d, q, 1, 10) :
     k \in {{"qty"}}, s \in {{}, {"spread_months"}}, d \in {{}, {"days_ago"}},
     q \in (0..MaxQty) \cup {4}}
  \cup {EncounterDefWith(s \cup d, 0, 1, 10) :
          s \in {{}, {"spread_months"}}, d \in {{}, {"days_ago"}}}
  \cup {EncounterDefWith({"qty", "spread_months"} \cup d, q, 0, 10) :
          d \in {{}, {"days_ago"}}, q \in {1, MaxQty}}

\* An immunization definition: the keys it holds and their values.
ImmunizationDef(keys, qty, days_ago) ==
  [keys |-> keys, qty |-> qty, days_ago |-> days_ago, doseNumber |-> 0]

ImmunizationDefs ==
  {ImmunizationDef({}, 0, 0)}
  \cup {ImmunizationDef({"days_ago"}, 0, d) : d \in {20, 180}}
  \cup UNION {{ImmunizationDef({"qty"}, q, 0)}
              \cup {ImmunizationDef({"qty", "days_ago"}, q, d) : d \in {20, 180}}
              : q \in 0..MaxQty}

\* The relationships of the inverse table, and one that is not in it.
Relationships == {"parent", "child", "spouse", "sibling", "guardian", "emergency", "friend"}

Profile(mode, single_patient, rules) ==
  [mode |-> mode, single_patient |-> single_patient, rules |-> rules]

DefaultPatientDef == [gender |-> "unknown", identifiers |-> <<>>]

ProfileNoRules == Profile("cohort", DefaultPatientDef, <<>>)

ProfilePersona ==
  Profile("single",
          [gender |-> "female", identifiers |-> <<Identifier("sysA", "v1")>>],
          << Rule(When("true", 0),
                  [add_observations |-> <<ObservationDef(TimesQty(2))>>,
                   meds |-> <<MedicationDef>>]),
             Rule(When("age >", 50), [encounters |-> <<EncounterDef(1)>>]),
             Rule(When("gender == female", 0), [add_conditions |-> <<ConditionDef>>]) >>)

ProfileCohort ==
  Profile("cohort", DefaultPatientDef,
          << Rule(When("age >", 50), [add_conditions |-> <<ConditionDef>>]),
             Rule(When("gender == female", 0), [meds |-> <<MedicationDef>>]),
             Rule(When("true", 0), [add_observations |-> <<ObservationDef(NoTimes)>>]) >>)

\* A cohort profile whose second rule is written "age >= 65".
ProfileAgeAtLeast ==
  Profile("cohort", DefaultPatientDef,
          << Rule(When("true", 0), [meds |-> <<MedicationDef>>]),
             Rule(When("age >=", 65), [add_conditions |-> <<ConditionDef>>]) >>)

ProfileFamily(mode, relationship) ==
  Profile(mode, DefaultPatientDef,
          << Rule(When("true", 0), [related_persons |-> <<RelatedDef(relationship)>>]) >>)

ProfileLab ==
  Profile("cohort", DefaultPatientDef,
          << Rule(When("true", 0),
                  [diagnostic_reports |-> <<ReportDef>>,
                   coverage |-> <<CoverageDef(EmptyString)>>]) >>)

ProfileVaccines(immunization_def) ==
  Profile("single", DefaultPatientDef,
          << Rule(When("true", 0),
                  [immunizations |-> <<immunization_def>>,
                   coverage |-> <<CoverageDef(RelRef("Patient", "external-1"))>>,
                   encounters |-> <<EncounterDef(2)>>]) >>)

\* A profile whose second rule holds an observation the factory cannot build,
\* after definitions it can.
ProfileBadValue(mode) ==
  Profile(mode, DefaultPatientDef,
          << Rule(When("true", 0), [add_conditions |-> <<ConditionDef>>]),
             Rule(When("age >", 50),
                  [add_conditions |-> <<ConditionDef>>,
                   add_observations |-> <<IntegerObservationDef("120"),
                                          IntegerObservationDef("high")>>,
                   encounters |-> <<EncounterDef(1)>>]) >>)

ProfileVisits(encounter_def) ==
  Profile("single", DefaultPatientDef,
          << Rule(When("true", 0), [encounters |-> <<encounter_def>>]) >>)

ProfileMeds(medication_def) ==
  Profile("single", DefaultPatientDef,
          << Rule(When("true", 0), [meds |-> <<medication_def>>]) >>)

\* A persona whose second rule holds an action of every category.
ProfileEverything ==
  Profile("single", DefaultPatientDef,
          << Rule(When("true", 0),
                  [encounters |-> <<EncounterDef(1)>>, add_conditions |-> <<ConditionDef>>]),
             Rule(When("true", 0),
                  [add_conditions |-> <<ConditionDef>>,
                   add_observations |-> <<ObservationDef(NoTimes)>>,
                   meds |-> <<MedicationDef>>,
                   related_persons |-> <<RelatedDef("spouse")>>,
                   diagnostic_reports |-> <<ReportDef>>,
                   immunizations |-> <<ImmunizationDef({}, 0, 0)>>,
                   coverage |-> <<CoverageDef(EmptyString)>>,
                   encounters |-> <<EncounterDef(2)>>]) >>)

ProfileTimed(times) ==
  Profile("single", DefaultPatientDef,
          << Rule(When("true", 0), [add_observations |-> <<ObservationDef(times)>>]) >>)

Profiles ==
  {ProfileNoRules, ProfilePersona, ProfileCohort, ProfileAgeAtLeast, ProfileLab,
   ProfileFamily("cohort", "parent"), ProfileBadValue("single"),
   ProfileBadValue("cohort"), ProfileEverything}
  \cup {ProfileFamily("single", r) : r \in Relationships}
  \cup {ProfileVaccines(d) : d \in ImmunizationDefs}
  \cup {ProfileTimed(t) : t \in TimingSpecs}
  \cup {ProfileVisits(d) : d \in EncounterDefs}
  \cup {ProfileMeds(d) : d \in MedicationDefs}

\* What _generate_demographics may draw.
DemographicsDraws == {[age |-> 40, gender |-> "female"], [age |-> 70, gender |-> "male"]}

\* set_resource_filter arguments ({}: no filter set).
ResourceFilters == {{}, {"Condition", "Observation"}, {"RelatedPerson"},
                    {"DiagnosticReport", "Patient"}}

\* The state of a Generator just built from profile and seed, before generate.
FreshGenerator ==
  /\ index = 0 /\ rule_index = 0
  /\ demographics = NoDemographics /\ patient = NoResource /\ patient_ref = None
  /\ patient_resources = <<>> /\ patient_mapping = EmptyDict
  /\ all_resources = <<>> /\ all_urn_mappings = EmptyDict /\ rng_calls = 0

Init ==
  /\ pc = "generate"
  /\ profile \in Profiles
  /\ resource_filter \in ResourceFilters
  /\ count \in (IF profile.mode = "single" THEN {1} ELSE 0..MaxCount)
  /\ seed \in [1..(IF profile.mode = "single" THEN 0 ELSE count) -> DemographicsDraws]
  /\ runs = 1
  /\ bundle_type \in BundleTypes
  /\ bundle_size \in 1..MaxBundleSize
  /\ request_method \in RequestMethods
  /\ api = None /\ resources = <<>> /\ urn_mapping = EmptyDict
  /\ AssemblerIdle
  /\ NoRewrite
  /\ FreshGenerator
  /\ result = NoResult

\* Lines 105-118: the mode decides the path.
CallGenerate ==
  /\ pc = "generate"
  /\ pc' = (IF profile.mode = "single" THEN "single_patient" ELSE "cohort")
  /\ index' = 0
  /\ all_resources' = <<>>
  /\ all_urn_mappings' = EmptyDict
  /\ UNCHANGED <<asmVars, refVars, profile, resource_filter, count, rule_index,
                 demographics, patient, patient_ref, patient_resources, patient_mapping,
                 rng_calls, result, seed, runs>>

\* Lines 144-163 and 190-209: the ids are drawn and the Patient is made.
BeginPatient(patient_def) ==
  LET patient_id == RngUuid(rng_calls + 1)
      patient_urn == IF request_method = "POST" THEN RngUuid(rng_calls + 2) ELSE patient_id
      n1 == IF request_method = "POST" THEN rng_calls + 2 ELSE rng_calls + 1
  IN /\ patient' = CreatePatient(patient_def, patient_id, RngUuid(n1 + 1))
     /\ rng_calls' = (IF DrawsMrn(patient_def) THEN n1 + 1 ELSE n1)
     /\ patient_ref' = patient_urn
     /\ patient_resources' = <<patient'>>
     /\ patient_mapping' = (IF request_method = "POST"
                            THEN DictSet(EmptyDict, patient_id, patient_urn)
                            ELSE EmptyDict)
     /\ rule_index' = 0
     /\ pc' = "rules"

\* _generate_single_patient, up to its loop over the rules.
StartSinglePatient ==
  /\ pc = "single_patient"
  /\ BeginPatient(profile.single_patient)
  /\ UNCHANGED <<asmVars, refVars, profile, resource_filter, count, index, demographics,
                 all_resources, all_urn_mappings, result, seed, runs>>

\* _generate_patient(i), up to its loop over the rules: the demographics are
\* what the seeded stream yields for this subject.
StartCohortPatient ==
  /\ pc = "cohort"
  /\ index < count
  /\ demographics' = seed[index + 1]
  /\ BeginPatient([gender |-> seed[index + 1].gender, identifiers |-> <<>>])
  /\ UNCHANGED <<asmVars, refVars, profile, resource_filter, count, index,
                 all_resources, all_urn_mappings, result, seed, runs>>

\* Lines 167-172 and 213-219: one turn of the loop over the rules.  Only the
\* cohort path evaluates the rule's condition.
ApplyNextRule ==
  /\ pc = "rules"
  /\ rule_index < Len(profile.rules)
  /\ LET rule == profile.rules[rule_index + 1]
         r == ApplyRule(rule, patient, patient_ref, request_method, rng_calls)
         applied == profile.mode = "single" \/ EvaluateRuleCondition(rule, demographics)
         raised == \/ profile.mode # "single" /\ ThresholdRaises(rule)
                   \/ applied /\ RuleRaises(rule)
     IN /\ pc' = AfterRule(raised)
        /\ IF applied /\ ~raised
           THEN /\ patient_resources' = patient_resources \o r.resources
                /\ patient_mapping' = DictUpdate(patient_mapping, r.urn_mapping)
                /\ rng_calls' = r.n
           ELSE UNCHANGED <<patient_resources, patient_mapping, rng_calls>>
  /\ rule_index' = rule_index + 1
  /\ UNCHANGED <<asmVars, refVars, profile, resource_filter, count, index,
                 demographics, patient, patient_ref, all_resources, all_urn_mappings,
                 result, seed, runs>>

\* Lines 175-178 and 109-113: the single patient's resources are filtered and
\* handed to create_bundle.
AssembleSinglePatient ==
  /\ pc = "rules"
  /\ rule_index = Len(profile.rules)
  /\ profile.mode = "single"
  /\ resources' = FilterResources(patient_resources, resource_filter)
  /\ urn_mapping' = patient_mapping
  /\ api' = "create_bundle"
  /\ pc' = "call"
  /\ UNCHANGED <<bundle_type, bundle_size, request_method, i, chunk, combined_mapping,
                 bundle_id, entries, bundles, uuid4_calls, refVars, genVars>>

\* Lines 222-225 and 120-122: the subject's resources are filtered and added to
\* the run's, its urn_mapping to the run's.
FinishCohortPatient ==
  /\ pc = "rules"
  /\ rule_index = Len(profile.rules)
  /\ profile.mode # "single"
  /\ all_resources' = all_resources \o FilterResources(patient_resources, resource_filter)
  /\ all_urn_mappings' = DictUpdate(all_urn_mappings, patient_mapping)
  /\ index' = index + 1
  /\ pc' = "cohort"
  /\ UNCHANGED <<asmVars, refVars, profile, resource_filter, count, rule_index,
                 demographics, patient, patient_ref, patient_resources, patient_mapping,
                 rng_calls, result, seed, runs>>

\* Lines 125-131: the run's resources go to create_bundles.
AssembleCohort ==
  /\ pc = "cohort"
  /\ index >= count
  /\ resources' = all_resources
  /\ urn_mapping' = all_urn_mappings
  /\ api' = "create_bundles"
  /\ pc' = "call"
  /\ UNCHANGED <<bundle_type, bundle_size, request_method, i, chunk, combined_mapping,
                 bundle_id, entries, bundles, uuid4_calls, refVars, genVars>>

\* return bundles, whatever their number.
ReturnShapeAlwaysList(entry_point, bs) ==
  IF entry_point = "create_bundle" THEN "Bundle" ELSE "list"

\* Line 114: return self.bundle_assembler.create_bundle(...), a Bundle.
\* Line 133: return bundles[0] if len(bundles) == 1 else bundles.
ReturnShape(entry_point, bs) ==
  IF entry_point = "create_bundle" \/ Len(bs) = 1 THEN "Bundle" ELSE "list"

\* Lines 114 and 133: a single bundle, or the list when there are several.
ReturnFromGenerate ==
  /\ pc = "done"
  /\ pc' = "returned"
  /\ result' = [kind |-> ReturnShape(api, bundles), bundles |-> bundles]
  /\ UNCHANGED <<asmVars, refVars, profile, resource_filter, count, index, rule_index,
                 demographics, patient, patient_ref, patient_resources, patient_mapping,
                 all_resources, all_urn_mappings, rng_calls, seed, runs>>

Next ==
  \/ CallGenerate
  \/ StartSinglePatient
  \/ StartCohortPatient
  \/ ApplyNextRule
  \/ AssembleSinglePatient
  \/ FinishCohortPatient
  \/ AssembleCohort
  \/ CallCreateBundle
  \/ CallCreateBundles
  \/ NextChunk
  \/ EmptyBundle
  \/ AddEntry
  \/ FinishBundle
  \/ ReturnBundles
  \/ ReturnFromGenerate

Spec == Init /\ [][Next]_vars

\* ------------------------------------------------------------------ generate, run twice
\* A second Generator is built from the same profile and the same seed, and
\* generate is called on it with the same arguments.  Its seeded stream starts
\* over; uuid.uuid4() does not.  The first run's return value is kept.
RunAgain ==
  /\ pc = "returned"
  /\ runs = 1
  /\ runs' = 2
  /\ pc' = "generate"
  /\ index' = 0 /\ rule_index' = 0
  /\ demographics' = NoDemographics /\ patient' = NoResource /\ patient_ref' = None
  /\ patient_resources' = <<>> /\ patient_mapping' = EmptyDict
  /\ all_resources' = <<>> /\ all_urn_mappings' = EmptyDict /\ rng_calls' = 0
  /\ api' = None /\ resources' = <<>> /\ urn_mapping' = EmptyDict
  /\ i' = 0 /\ chunk' = <<>> /\ combined_mapping' = EmptyDict /\ bundle_id' = None
  /\ entries' = <<>> /\ bundles' = <<>>
  /\ UNCHANGED <<uuid4_calls, bundle_type, bundle_size, request_method, refVars,
                 profile, resource_filter, count, result, seed>>

TwoRunNext == Next \/ RunAgain

TwoRunSpec == Init /\ [][TwoRunNext]_vars

\* ------------------------------------------------------------------ _update_references, called directly
\* Reference strings: relative, already urn:uuid:, urn:uuid: with a slash, a bare
\* id, an absolute URL, a reference to a record outside the run.
SampleReferences ==
  { RelRef("Patient", "a"), RelRef("Observation", "b"), UrnUuid("a"),
    Str(TRUE, <<"a", "b">>), Str(FALSE, <<"a">>),
    Str(FALSE, <<"http:", "", "host", "Patient", "a">>),
    RelRef("Organization", "default-insurance") }

\* Dumped structures: a record with a reference field and a list of references, a
\* record whose "reference" key holds a nested object (CodeableReference), a list
\* at the top, a bare string.
SampleData ==
  {Dict([subject |-> Reference(s), result |-> List(<<Reference(r)>>)]) :
      s \in SampleReferences, r \in SampleReferences}
  \cup {Dict([medication |-> Dict([reference |-> Reference(s),
                                   concept |-> Str(FALSE, <<"code">>)])]) :
      s \in SampleReferences}
  \cup {List(<<Reference(s), s>>) : s \in SampleReferences}
  \cup {Dict([reference |-> s, display |-> Str(FALSE, <<"a">>),
              extension |-> List(<<Dict([valueReference |-> Reference(s)])>>)]) :
      s \in SampleReferences}
  \cup SampleReferences

\* Identity maps whose values may themselves be keys.
RewriteMappings ==
  { EmptyDict,
    [k \in {"a"} |-> "b"],
    [k \in {"a"} |-> "a"],
    [k \in {"a", "b"} |-> IF k = "a" THEN "b" ELSE "a"],
    [k \in {"a", "b"} |-> IF k = "a" THEN "b" ELSE "c"],
    [k \in {"b", "default-insurance"} |-> "a"] }

RefInit ==
  /\ pc = "rewrite"
  /\ data_in \in SampleData
  /\ data = data_in
  /\ urn_mapping \in RewriteMappings
  /\ rewrites = 0
  /\ api = "_update_references"
  /\ resources = <<>> /\ bundle_type = None /\ bundle_size = DefaultBundleSize
  /\ request_method = None
  /\ AssemblerIdle
  /\ NoGenerator

\* self._update_references(data, urn_mapping): data is rewritten in place.
CallUpdateReferences ==
  /\ pc = "rewrite"
  /\ rewrites < MaxRewrites
  /\ data' = UpdateReferences(data, urn_mapping)
  /\ rewrites' = rewrites + 1
  /\ UNCHANGED <<pc, asmVars, data_in, genVars>>

RefNext == CallUpdateReferences

RefSpec == RefInit /\ [][RefNext]_vars

\* ================================================================== properties
\* The strings held under a "reference" key anywhere in a dumped structure.
RECURSIVE ReferencesOf(_)
ReferencesOf(node) ==
  IF node.t = "dict"
  THEN (IF "reference" \in DOMAIN node.f /\ node.f["reference"].t = "str"
        THEN {node.f["reference"]} ELSE {})
       \cup UNION {ReferencesOf(node.f[k]) : k \in DOMAIN node.f}
  ELSE IF node.t = "list"
  THEN UNION {ReferencesOf(node.items[n]) : n \in DOMAIN node.items}
  ELSE {}

\* Every entry built so far: those of the finished bundles and of the one in progress.
AllBundles == bundles \o (IF pc = "entry" THEN <<Bundle(bundle_id, bundle_type, entries)>> ELSE <<>>)

Returned == pc = "done"

\* The ids of the records handed to the assembler.
DurableIds == {resources[n].id : n \in DOMAIN resources} \ {None}

\* C2: in POST mode, once the assembler has returned, no entry holds a reference
\* Type/<id> whose <id> is the durable id of a record of the list (each of which
\* was given a transport-local identifier).
C2_NoDurableReferenceLeft ==
  (Returned /\ request_method = "POST") =>
    \A b \in DOMAIN bundles : \A e \in DOMAIN bundles[b].entry :
      \A s \in ReferencesOf(bundles[b].entry[e].resource.body) :
        ~(~StartsWithUrnUuid(s) /\ Len(Split(s)) = 2 /\ Split(s)[2] \in DurableIds)

CeilDiv(a, b) == (a + b - 1) \div b

\* C3: create_bundles returns max(1, ceil(n/N)) bundles, each of at most N entries,
\* all but the last of exactly N, the last of n mod N when that is not zero.
C3_BundleSizeLaw ==
  (Returned /\ api = "create_bundles") =>
    LET n == Len(resources)
        N == bundle_size
        k == Len(bundles)
    IN /\ k = (IF CeilDiv(n, N) > 1 THEN CeilDiv(n, N) ELSE 1)
       /\ \A b \in 1..k : Len(bundles[b].entry) <= N
       /\ \A b \in 1..(k - 1) : Len(bundles[b].entry) = N
       /\ (n % N # 0) => Len(bundles[k].entry) = n % N
       /\ (n = 0) => Len(bundles[1].entry) = 0

C3_Witness ==
  /\ Returned /\ api = "create_bundles"
  /\ Len(resources) = 3 /\ bundle_size = 2
  /\ Len(bundles) = 2 /\ Len(bundles[2].entry) = 1

\* C5: a second pass of _update_references over a structure changes nothing.
C5_RewriteIdempotent == [][rewrites >= 1 => data' = data]_vars

\* A reference was rewritten by the first pass to urn:uuid:<t> with t itself a key
\* of the map, and the second pass has run.
C5_Witness ==
  /\ rewrites = 2
  /\ data_in = Dict([subject |-> Reference(RelRef("Patient", "a")),
                     result |-> List(<<Reference(UrnUuid("a"))>>)])
  /\ urn_mapping = [k \in {"a", "b"} |-> IF k = "a" THEN "b" ELSE "c"]
  /\ data = Dict([subject |-> Reference(UrnUuid("b")),
                  result |-> List(<<Reference(UrnUuid("a"))>>)])

\* C6: an entry carries a request exactly when its bundle is a transaction bundle.
C6_RequestIffTransaction ==
  \A b \in DOMAIN AllBundles : \A e \in DOMAIN AllBundles[b].entry :
    (AllBundles[b].entry[e].request # NoRequest) <=> (AllBundles[b].type = "transaction")

C6_Witness ==
  /\ Returned /\ Len(bundles) = 2
  /\ bundles[1].type = "collection" /\ request_method = "CONDITIONAL"
  /\ Len(bundles[2].entry) = 1
  /\ bundles[2].entry[1].request = NoRequest

\* C7: in POST mode every entry's record has no id, and the entry's fullUrl is
\* urn:uuid:<t>, t being the identity map's value for the record's durable id: the
\* caller's binding when there is one, the working map's binding in every case.
C7_PostStripsIdAndUsesMapping ==
  (pc \in {"entry", "chunks", "done"} /\ request_method = "POST") =>
    \A n \in DOMAIN entries :
      /\ entries[n].resource.id = None
      /\ StartsWithUrnUuid(entries[n].fullUrl) /\ Len(Split(entries[n].fullUrl)) = 1
      /\ chunk[n].id # None =>
           /\ chunk[n].id \in DOMAIN combined_mapping
           /\ entries[n].fullUrl = UrnUuid(combined_mapping[chunk[n].id])
      /\ chunk[n].id \in DOMAIN urn_mapping =>
           entries[n].fullUrl = UrnUuid(urn_mapping[chunk[n].id])

C7_Witness ==
  /\ Returned /\ request_method = "POST"
  /\ Len(entries) = 2
  /\ chunk[1].id = "p1" /\ urn_mapping = [k \in {"p1"} |-> "u1"]
  /\ entries[1].fullUrl = UrnUuid("u1")
  /\ chunk[2].id = "c1" /\ entries[2].fullUrl = UrnUuid(combined_mapping["c1"])

\* C8: in CONDITIONAL mode the entries hold the reference strings POST mode gives
\* for the same records and the same identity map (stated where the map binds the
\* id of every record, so that POST mode draws nothing new).
C8_ConditionalRewritesAsPost ==
  (request_method = "CONDITIONAL" /\ DurableIds \subseteq DOMAIN urn_mapping) =>
    \A n \in DOMAIN entries :
      entries[n].resource.body =
        CreateBundleEntry(chunk[n], bundle_type, "POST", urn_mapping, None).entry.resource.body

\* C9: in CONDITIONAL mode every entry of a transaction bundle is a conditional
\* create guarded by the record's first identifier, or by its durable id when it
\* has no identifier.
C9_ConditionalGuardsEveryKind ==
  (request_method = "CONDITIONAL" /\ bundle_type = "transaction") =>
    \A n \in DOMAIN entries :
      LET r == chunk[n]
          guard == IF r.identifier # <<>>
                   THEN <<"identifier=", r.identifier[1].system, "|", r.identifier[1].value>>
                   ELSE <<"identifier=", r.id>>
      IN (r.identifier # <<>> \/ r.id # None) =>
           /\ entries[n].request.method = "POST"
           /\ entries[n].request.path = <<r.rtype>>
           /\ entries[n].request.query = guard

\* C10: in POST mode an entry of a transaction bundle is a plain create, POST to
\* the record kind with no guard, unless the record is a Patient with an
\* identifier: then it also carries ifNoneExist built from the first identifier.
C10_PostDirective ==
  (request_method = "POST" /\ bundle_type = "transaction") =>
    \A n \in DOMAIN entries :
      LET r == chunk[n]
          q == entries[n].request
      IN /\ q.method = "POST" /\ q.path = <<r.rtype>> /\ q.query = <<>>
         /\ q.ifNoneMatch = None
         /\ q.ifNoneExist =
              (IF r.rtype = "Patient" /\ r.identifier # <<>>
               THEN <<"identifier=", r.identifier[1].system, "|", r.identifier[1].value>>
               ELSE None)

C10_Witness ==
  /\ Returned /\ request_method = "POST" /\ bundle_type = "transaction"
  /\ Len(entries) = 3
  /\ chunk[1] = PatientA /\ entries[1].request.ifNoneExist = <<"identifier=", "sysA", "|", "v1">>
  /\ chunk[2] = PatientB /\ entries[2].request.ifNoneExist = None
  /\ chunk[3] = RelatedPersonA /\ entries[3].request.ifNoneExist = None

\* ------------------------------------------------------------------ generate: C1, C4
\* C1: in a POST run of generate, once it has returned, every urn:uuid:
\* reference held by an entry's record equals the fullUrl of some entry of the
\* same bundle.
C1_ReferenceClosure ==
  (pc = "returned" /\ request_method = "POST") =>
    \A b \in DOMAIN result.bundles :
      \A e \in DOMAIN result.bundles[b].entry :
        \A ref \in ReferencesOf(result.bundles[b].entry[e].resource.body) :
          StartsWithUrnUuid(ref) =>
            \E e2 \in DOMAIN result.bundles[b].entry :
              result.bundles[b].entry[e2].fullUrl = ref

\* m2 holds every key of m1, bound as in m1.
Extends(m2, m1) == \A k \in DOMAIN m1 : k \in DOMAIN m2 /\ m2[k] = m1[k]

\* The identity map of the run so far: the finished subjects' and the current one's.
RunMap == DictUpdate(all_urn_mappings, patient_mapping)

\* C4: during one run of generate no step removes a key of the identity map or
\* binds it to another value (not a rule, not a later subject, not the
\* assembler's working copy); every record made in POST mode adds one key that
\* was not there; a subject's map shares no key with the earlier subjects'; and
\* the map handed to the assembler is the union of the subjects' maps.
C4_IdentityMapWriteOnce ==
  [][ /\ Extends(RunMap', RunMap)
      /\ Extends(combined_mapping', combined_mapping)
      /\ (pc' = "entry") => Extends(combined_mapping', urn_mapping')
      /\ (pc = "rules" /\ pc' = "rules" /\ request_method = "POST") =>
           Cardinality(DOMAIN patient_mapping') - Cardinality(DOMAIN patient_mapping)
             = Len(patient_resources') - Len(patient_resources)
      /\ (pc = "rules" /\ pc' = "cohort") =>
           /\ DOMAIN patient_mapping \cap DOMAIN all_urn_mappings = {}
           /\ DOMAIN all_urn_mappings' = DOMAIN all_urn_mappings \cup DOMAIN patient_mapping
      /\ (pc # "call" /\ pc' = "call") => urn_mapping' = RunMap
    ]_vars

\* A second subject's records are being assembled in a later bundle of a POST
\* run, from a map that holds both subjects' keys.
C4_Witness ==
  /\ pc = "entry"
  /\ api = "create_bundles"
  /\ request_method = "POST"
  /\ index = 2
  /\ Len(bundles) >= 1
  /\ Len(entries) >= 1
  /\ Cardinality(DOMAIN combined_mapping) >= 4
  /\ combined_mapping = all_urn_mappings

\* ------------------------------------------------------------------ assembler: C11, C12
\* The entries of a list of bundles, in order.
RECURSIVE EntriesOf(_)
EntriesOf(bs) == IF bs = <<>> THEN <<>> ELSE Head(bs).entry \o EntriesOf(Tail(bs))

\* C11: in PUT mode the n-th entry built carries the n-th record as it was handed
\* over (same id, same references), its fullUrl is urn:uuid: of the record's id,
\* and in a transaction bundle its request is PUT <Kind>/<id> with ifNoneMatch "*".
C11_PutKeepsRecord ==
  request_method = "PUT" =>
    LET es == EntriesOf(AllBundles)
    IN /\ Len(es) <= Len(resources)
       /\ \A n \in DOMAIN es :
            /\ es[n].resource = resources[n]
            /\ es[n].fullUrl = UrnUuid(resources[n].id)
            /\ bundle_type = "transaction" =>
                 es[n].request = BundleEntryRequest("PUT",
                                   <<resources[n].rtype, resources[n].id>>, <<>>, "*", None)

\* A PUT transaction has returned whose records hold references to ids that the
\* caller's map binds: nothing was rewritten.
C11_Witness ==
  /\ Returned
  /\ request_method = "PUT"
  /\ bundle_type = "transaction"
  /\ Len(resources) >= 2
  /\ \E n \in DOMAIN resources : resources[n] = ConditionA
  /\ "p1" \in DOMAIN urn_mapping
  /\ Len(EntriesOf(bundles)) = Len(resources)

\* C12: whenever the bundle type is not transaction or collection, or the
\* request method is not POST, PUT or CONDITIONAL, the assembler builds no entry
\* and returns no bundle.
C12_FailFast ==
  (bundle_type \notin {"transaction", "collection"}
     \/ request_method \notin {"POST", "PUT", "CONDITIONAL"}) =>
    /\ pc \in {"call", "chunks", "error"}
    /\ entries = <<>>
    /\ bundles = <<>>

\* ------------------------------------------------------------------ generate: C13
\* C13: when generate ends in the assembler's validation error, no record has
\* been built and the seeded stream has not been drawn from.
C13_ErrorBeforeAnyRecord ==
  pc = "error" =>
    /\ rng_calls = 0
    /\ patient = NoResource
    /\ patient_resources = <<>>
    /\ all_resources = <<>>

\* ------------------------------------------------------------------ generate, run twice: C14
\* The durable id and the fullUrl of every entry of a list of bundles.
EntryIdsOf(bs) ==
  [b \in DOMAIN bs |->
     [e \in DOMAIN bs[b].entry |->
        [id |-> bs[b].entry[e].resource.id, fullUrl |-> bs[b].entry[e].fullUrl]]]

\* The ids of the bundles of a list.
BundleIdsOf(bs) == [b \in DOMAIN bs |-> bs[b].id]

\* C14: when a second Generator built from the same profile and seed has run
\* generate with the same arguments, its bundles have the same bundle ids as the
\* first run's and, entry by entry, the same durable ids and fullUrls.
C14_SameIdentifiers ==
  (runs = 2 /\ pc = "done") =>
    /\ EntryIdsOf(bundles) = EntryIdsOf(result.bundles)
    /\ BundleIdsOf(bundles) = BundleIdsOf(result.bundles)

\* ------------------------------------------------------------------ related persons: C15
\* The first rule of the profile is a related-person action, and it has been applied.
RelatedPersonsApplied ==
  /\ pc = "rules"
  /\ rule_index = 1
  /\ profile.rules[1].then.related_persons # <<>>

\* What the relationship field of a RelatedPerson holds for relationship r.
RelationshipField(r) == Str(FALSE, <<RelationshipCode(r)>>)

\* C15: a related-person action adds, after the subject's Patient, one new
\* Patient and two RelatedPerson records: A refers to the subject and holds the
\* stated relationship, B refers to the new Patient and holds the inverse; and
\* when the stated relationship is in the inverse table, the inverse of the
\* inverse is the stated relationship.
C15_SymmetricRelation ==
  RelatedPersonsApplied =>
    LET r == profile.rules[1].then.related_persons[1].relationship
        P == patient_resources[2]
        A == patient_resources[3]
        B == patient_resources[4]
    IN /\ Len(patient_resources) = 4
       /\ P.rtype = "Patient" /\ A.rtype = "RelatedPerson" /\ B.rtype = "RelatedPerson"
       /\ A.body.f.patient = Reference(PatientReference(patient_ref, request_method))
       /\ A.body.f.relationship = RelationshipField(r)
       /\ B.body.f.patient =
            Reference(IF request_method = "POST" THEN UrnUuid(patient_mapping[P.id])
                      ELSE RelRef("Patient", P.id))
       /\ B.body.f.relationship = RelationshipField(InverseRelationship(r))
       /\ r \in InverseTableKeys => InverseRelationship(InverseRelationship(r)) = r

\* ------------------------------------------------------------------ rule conditions: C16
\* The rule the loop over the rules is about to handle.
NextRule == profile.rules[rule_index + 1]

\* C16: a rule whose condition is neither "true" nor "age > N" with the
\* subject's age above N adds no record and raises no error, in both modes.
C16_FailClosed ==
  [][ (/\ pc = "rules"
       /\ rule_index < Len(profile.rules)
       /\ NextRule.when.condition # "true"
       /\ ~(NextRule.when.condition = "age >" /\ demographics.age > NextRule.when.threshold))
      => (pc' = "rules" /\ patient_resources' = patient_resources)
    ]_vars

\* ------------------------------------------------------------------ time points: C17
\* max(qty, 1) for a timing specification, qty being 1 when it is not given.
RequestedQuantity(times) == Max(IF "qty" \in times.keys THEN times.qty ELSE 1, 1)

RECURSIVE SumRequested(_)
SumRequested(obs_defs) ==
  IF obs_defs = <<>> THEN 0
  ELSE RequestedQuantity(Head(obs_defs).times) + SumRequested(Tail(obs_defs))

RECURSIVE SumRequestedInReports(_)
SumRequestedInReports(report_defs) ==
  IF report_defs = <<>> THEN 0
  ELSE SumRequested(Head(report_defs).observations) + SumRequestedInReports(Tail(report_defs))

\* The records of one kind in a list.
OfKind(rs, rtype) == SelectSeq(rs, LAMBDA r : r.rtype = rtype)

\* The records the step adds to the subject's.
Added == SubSeq(patient_resources', Len(patient_resources) + 1, Len(patient_resources'))

\* C17: _generate_time_points returns max(qty, 1) time points for every timing
\* specification, and a rule that fires adds that many Observation records for
\* each of its measurement definitions (its reports' included), each holding its
\* time point.
C17_TimePointCount ==
  [][ (/\ pc = "rules" /\ pc' = "rules"
       /\ rule_index' = rule_index + 1
       /\ (profile.mode = "single" \/ EvaluateRuleCondition(NextRule, demographics)))
      => /\ \A n \in DOMAIN NextRule.then.add_observations :
              Len(GenerateTimePoints(NextRule.then.add_observations[n].times))
                = RequestedQuantity(NextRule.then.add_observations[n].times)
         /\ Len(OfKind(Added, "Observation"))
              = SumRequested(NextRule.then.add_observations)
                + SumRequestedInReports(NextRule.then.diagnostic_reports)
         /\ \A n \in DOMAIN Added :
              Added[n].rtype = "Observation" =>
                Added[n].body.f.effectiveDateTime.t \in {"days_ago", "randint_days_ago"}
    ]_vars

\* A rule with three evenly spaced measurements over a lookback has been applied.
C17_Witness ==
  /\ pc = "rules"
  /\ rule_index = 1
  /\ profile = ProfileTimed(Times({"qty", "lookback_months"}, 3, 0, 0, 3, 0))
  /\ Len(OfKind(patient_resources, "Observation")) = 3
  /\ patient_resources[3].body.f.effectiveDateTime = DaysAgo(45)

\* ------------------------------------------------------------------ immunization doses: C18
\* The first rule of the profile holds an immunization action, and it has been applied.
ImmunizationsApplied ==
  /\ pc = "rules"
  /\ rule_index = 1
  /\ profile.rules[1].then.immunizations # <<>>

\* C18: an immunization action with qty > 1 adds qty Immunization records; dose
\* i (0-based) holds dose number i + 1 and, when days_ago is given, lies
\* days_ago - i*30 days back.
C18_RepeatedDoses ==
  ImmunizationsApplied =>
    LET def == profile.rules[1].then.immunizations[1]
        doses == OfKind(patient_resources, "Immunization")
    IN ("qty" \in def.keys /\ def.qty > 1) =>
         /\ Len(doses) = def.qty
         /\ \A n \in DOMAIN doses :
              /\ doses[n].body.f.doseQuantity = Quantity(n)
              /\ "days_ago" \in def.keys =>
                   doses[n].body.f.occurrenceDateTime = DaysAgo(def.days_ago - (n - 1) * 30)

\* ------------------------------------------------------------------ resource filter: C19
\* How a record of the run refers to Patient p.
ReferenceTo(p) ==
  IF request_method = "POST" THEN UrnUuid(patient_mapping[p.id]) ELSE RelRef("Patient", p.id)

\* The filtered records the step hands on.
FilterOutput ==
  IF pc' = "call" THEN resources'
  ELSE SubSeq(all_resources', Len(all_resources) + 1, Len(all_resources'))

\* C19: when a filter is set, the records handed on for a subject are of a
\* listed kind or Patients, the records of the listed kinds are all there in
\* their order, and every Patient of the subject that a handed-on record refers
\* to (the subject's own, or the one made for a related person) is handed on too.
C19_FilterKeepsPatients ==
  [][ (pc = "rules" /\ pc' \in {"call", "cohort"} /\ resource_filter # {})
      => /\ \A n \in DOMAIN FilterOutput :
              FilterOutput[n].rtype \in resource_filter \cup {"Patient"}
         /\ SelectSeq(FilterOutput, LAMBDA r : r.rtype \in resource_filter)
              = SelectSeq(patient_resources, LAMBDA r : r.rtype \in resource_filter)
         /\ \A k \in DOMAIN patient_resources :
              (/\ patient_resources[k].rtype = "Patient"
               /\ \E n \in DOMAIN FilterOutput :
                    ReferenceTo(patient_resources[k]) \in ReferencesOf(FilterOutput[n].body))
              => \E n \in DOMAIN FilterOutput : FilterOutput[n] = patient_resources[k]
    ]_vars

\* ------------------------------------------------------------------ generate: C20
\* C20: no bundle generate returns holds more than bundle_size entries.
C20_AtMostBundleSize ==
  pc = "returned" =>
    \A b \in DOMAIN result.bundles : Len(result.bundles[b].entry) <= bundle_size

\* ------------------------------------------------------------------ C21
\* C21: generate returns a single Bundle exactly when the run results in one
\* bundle and a list otherwise; what it returns is never an empty list and
\* never a list of one bundle, and a cohort of count 0 returns one bundle with
\* no entry.
C21_ReturnShape ==
  pc = "returned" =>
    /\ Len(result.bundles) >= 1
    /\ result.kind \in {"Bundle", "list"}
    /\ result.kind = "Bundle" <=> Len(result.bundles) = 1
    /\ (profile.mode # "single" /\ count = 0) =>
          /\ result.kind = "Bundle"
          /\ result.bundles[1].entry = <<>>

\* A cohort of count 0 has returned its one empty bundle, as a Bundle.
C21_Witness ==
  /\ pc = "returned"
  /\ profile.mode # "single"
  /\ count = 0
  /\ result.kind = "Bundle"
  /\ Len(result.bundles) = 1
  /\ result.bundles[1].entry = <<>>

\* ------------------------------------------------------------------ C22
\* Subject k (1-based) gets rule n applied and building its records raises.
FailsAt(k, n) ==
  /\ RuleRaises(profile.rules[n])
  /\ profile.mode = "single" \/ EvaluateRuleCondition(profile.rules[n], seed[k])

\* The construction of some record of the run fails.
ConstructionFails ==
  \E n \in DOMAIN profile.rules :
    IF profile.mode = "single" THEN FailsAt(1, n)
    ELSE \E k \in 1..count : FailsAt(k, n)

\* C22: when the construction of a record fails during generate, generate
\* returns nothing: no record list is handed to the assembler, no bundle is
\* built from the records made before the failure, and once the error is
\* raised no further step of the run is taken (no retry).
C22_NoPartialOutput ==
  /\ [](ConstructionFails =>
         /\ result = NoResult
         /\ api = None /\ resources = <<>>
         /\ bundles = <<>> /\ entries = <<>>)
  /\ [][pc # "value_error"]_vars

\* A cohort run has failed at its second subject, after the first subject's
\* records were complete and after records of the second were built.
C22_Witness ==
  /\ pc = "value_error"
  /\ ConstructionFails
  /\ RuleRaises(profile.rules[rule_index])
  /\ all_resources # <<>>
  /\ Len(patient_resources) > 1
  /\ result = NoResult

\* ------------------------------------------------------------------ diagnostic reports: C23
\* The result list of a DiagnosticReport record, empty when the field is not set.
ResultOf(r) == IF "result" \in DOMAIN r.body.f THEN r.body.f.result.items ELSE <<>>

\* The transport reference of Observation o under an identity map.
ObservationReference(o, mapping) ==
  IF request_method = "POST" THEN UrnUuid(mapping[o.id]) ELSE RelRef("Observation", o.id)

\* Where the DiagnosticReport records stand among the records the step adds.
AddedReports == {p \in DOMAIN Added : Added[p].rtype = "DiagnosticReport"}

\* C23: a rule that fires adds one DiagnosticReport per diagnostic-report action;
\* the measurements of a report stand right before it in the output, one per
\* time point of each of its measurement definitions, and the report's result
\* list holds exactly their transport references in that order (urn:uuid: of
\* the measurement's transport id in POST mode, Observation/<id> otherwise).
C23_ReportAfterItsObservations ==
  [][ (/\ pc = "rules" /\ pc' = "rules"
       /\ rule_index' = rule_index + 1
       /\ (profile.mode = "single" \/ EvaluateRuleCondition(NextRule, demographics)))
      => /\ Cardinality(AddedReports) = Len(NextRule.then.diagnostic_reports)
         /\ \A p \in AddedReports :
              LET def == NextRule.then.diagnostic_reports[Cardinality({q \in AddedReports : q <= p})]
                  k == SumRequested(def.observations)
              IN /\ Len(ResultOf(Added[p])) = k
                 /\ p > k
                 /\ \A m \in 1..k :
                      LET o == Added[p - k + m - 1]
                      IN /\ o.rtype = "Observation"
                         /\ request_method = "POST" => o.id \in DOMAIN patient_mapping'
                         /\ ResultOf(Added[p])[m]
                              = Reference(ObservationReference(o, patient_mapping'))
    ]_vars

\* A report over three measurements has been added in POST mode, after them.
C23_Witness ==
  /\ pc = "rules"
  /\ rule_index = 1
  /\ profile = ProfileLab
  /\ request_method = "POST"
  /\ Len(patient_resources) >= 5
  /\ patient_resources[5].rtype = "DiagnosticReport"
  /\ Len(ResultOf(patient_resources[5])) = 3
  /\ \A m \in 1..3 : patient_resources[m + 1].rtype = "Observation"

\* ------------------------------------------------------------------ repeated visits: C24
\* The first rule of the profile holds an encounter action, and it has been applied.
VisitsApplied ==
  /\ pc = "rules"
  /\ rule_index = 1
  /\ profile.rules[1].then.encounters # <<>>

\* The days before now at which a visit starts.
StartOf(visit) == visit.body.f.actualPeriod.f.start

\* days_ago of an encounter definition, 0 when absent.
BaseDaysAgo(def) == IF "days_ago" \in def.keys THEN def.days_ago ELSE 0

\* C24 as stated: an encounter action with qty > 1 and spread_months > 0 adds
\* qty Encounter records, and visit i (0-based) starts exactly
\* base_days_ago + i * (spread_months*30)/qty days ago.
C24_VisitsAtExactIntervals ==
  VisitsApplied =>
    LET def == profile.rules[1].then.encounters[1]
        visits == OfKind(patient_resources, "Encounter")
    IN (EncounterQty(def) > 1 /\ SpreadMonths(def) > 0) =>
         /\ Len(visits) = EncounterQty(def)
         /\ \A n \in DOMAIN visits :
              /\ StartOf(visits[n]).t = "days_ago"
              /\ EncounterQty(def) * (StartOf(visits[n]).v - BaseDaysAgo(def))
                   = (n - 1) * SpreadMonths(def) * 30

\* C24, amended: an encounter action with qty > 1 and spread_months > 0 adds
\* qty Encounter records, and visit i (0-based) starts
\* base_days_ago + i * floor((spread_months*30)/qty) days ago, a whole number
\* of days; every visit lies less than spread_months*30 days from the base.
C24_VisitsAtWholeDayIntervals ==
  VisitsApplied =>
    LET def == profile.rules[1].then.encounters[1]
        visits == OfKind(patient_resources, "Encounter")
    IN (EncounterQty(def) > 1 /\ SpreadMonths(def) > 0) =>
         /\ Len(visits) = EncounterQty(def)
         /\ \A n \in DOMAIN visits :
              /\ StartOf(visits[n])
                   = DaysAgo(BaseDaysAgo(def)
                             + (n - 1) * ((SpreadMonths(def) * 30) \div EncounterQty(def)))
              /\ StartOf(visits[n]).v >= BaseDaysAgo(def)
              /\ StartOf(visits[n]).v - BaseDaysAgo(def) < SpreadMonths(def) * 30

\* Four visits over one month from a base of 10 days have been added: they lie
\* 7 days apart, the last one 31 days back.
C24_Witness ==
  /\ VisitsApplied
  /\ profile = ProfileVisits(EncounterDefWith({"qty", "spread_months", "days_ago"}, 4, 1, 10))
  /\ Len(OfKind(patient_resources, "Encounter")) = 4
  /\ StartOf(patient_resources[5]) = DaysAgo(31)

\* ------------------------------------------------------------------ lookback window: C25
\* The first rule of the profile is a measurement action timed by
\* lookback_months only (with or without a qty of at least 1), and it has
\* been applied.
LookbackApplied ==
  /\ pc = "rules"
  /\ rule_index = 1
  /\ profile.rules[1].then.add_observations # <<>>
  /\ LET times == profile.rules[1].then.add_observations[1].times
     IN /\ "lookback_months" \in times.keys
        /\ times.keys \subseteq {"qty", "lookback_months"}
        /\ "qty" \in times.keys => times.qty >= 1

\* The most and the fewest days before now a time point can lie.
Earliest(when) == IF when.t = "days_ago" THEN when.v ELSE when.b
Latest(when) == IF when.t = "days_ago" THEN when.v ELSE when.a

\* C25: with a timing specification of lookback_months = m only, every time
\* point lies between m*30 days ago and now, whatever qty >= 1 is; for qty > 1
\* the day offsets run evenly from 0 to m*30 (each within half a day of its
\* even position), so that the time points span at most m*30 days.
C25_LookbackWindow ==
  LookbackApplied =>
    LET times == profile.rules[1].then.add_observations[1].times
        total_days == times.lookback_months * 30
        qty == IF "qty" \in times.keys THEN times.qty ELSE 1
        obs == OfKind(patient_resources, "Observation")
    IN /\ Len(obs) = qty
       /\ \A n \in DOMAIN obs :
            /\ Latest(obs[n].body.f.effectiveDateTime) >= 0
            /\ Earliest(obs[n].body.f.effectiveDateTime) <= total_days
       /\ qty > 1 =>
            /\ obs[1].body.f.effectiveDateTime = DaysAgo(0)
            /\ obs[qty].body.f.effectiveDateTime = DaysAgo(total_days)
            /\ \A n \in DOMAIN obs :
                 LET off == obs[n].body.f.effectiveDateTime
                     d == off.v * (qty - 1) - (n - 1) * total_days
                 IN /\ off.t = "days_ago"
                    /\ 2 * d <= qty - 1
                    /\ 2 * d >= 0 - (qty - 1)

\* ------------------------------------------------------------------ medication dates: C26
\* The first rule of the profile holds a medication action, and it has been applied.
MedsApplied ==
  /\ pc = "rules"
  /\ rule_index = 1
  /\ profile.rules[1].then.meds # <<>>

\* C26: whenever a medication definition gives start_days_ago (0 included),
\* the order starts that many days before now, whatever completed_days_ago and
\* duration_days are; the start is derived from them only when no start is given.
C26_ExplicitStartWins ==
  MedsApplied =>
    LET def == profile.rules[1].then.meds[1]
        order == OfKind(patient_resources, "MedicationRequest")[1]
    IN "start_days_ago" \in def.keys =>
         order.body.f.boundsPeriod.f.start = DaysAgo(def.start_days_ago)

\* ------------------------------------------------------------------ identity map coverage: C27
\* C27: in POST mode the id of every record generate hands to the assembler is
\* a key of the identity map handed over with it, and while the assembler
\* builds the entries it never draws a transport identifier of its own
\* (uuid.uuid4() is called for the bundle ids only).
C27_IdentityMapCoverage ==
  /\ [](request_method = "POST" =>
         \A n \in DOMAIN resources : InMapping(resources[n], urn_mapping))
  /\ [][(pc = "entry" /\ Len(entries') = Len(entries) + 1) => uuid4_calls' = uuid4_calls]_vars

\* A POST run over a subject with related persons has built all its entries
\* with uuid.uuid4() called once per bundle.
C27_Witness ==
  /\ pc = "done"
  /\ request_method = "POST"
  /\ Len(resources) >= 4
  /\ \E n \in DOMAIN resources : resources[n].rtype = "RelatedPerson"
  /\ bundles # <<>>
  /\ uuid4_calls = Len(bundles)

\* ------------------------------------------------------------------ fullUrl uniqueness: C28
\* C28: no two entries of the bundles one generate call returns have the same
\* fullUrl, in every request method; and in POST mode the transport identifier
\* in a fullUrl is the durable id of no record of the run.
C28_UniqueFullUrls ==
  pc = "returned" =>
    LET es == EntriesOf(result.bundles)
    IN /\ \A a, b \in DOMAIN es : a # b => es[a].fullUrl # es[b].fullUrl
       /\ request_method = "POST" =>
            \A a \in DOMAIN es :
              /\ es[a].fullUrl.urn
              /\ es[a].fullUrl.parts[1] \notin DOMAIN urn_mapping
              /\ \A n \in DOMAIN resources : es[a].fullUrl.parts[1] # resources[n].id

\* A POST cohort of two subjects has been returned in several bundles.
C28_Witness ==
  /\ pc = "returned"
  /\ request_method = "POST"
  /\ count = 2
  /\ Len(result.bundles) >= 2
  /\ Len(EntriesOf(result.bundles)) >= 4

\* ------------------------------------------------------------------ frame of assembly: C29
\* C29: no step of create_bundle or create_bundles changes the identity map
\* the caller handed in (not even when a transport identifier is minted and
\* recorded) nor any record the caller handed in (its id and its references
\* stay as they were), in every request method.
C29_AssemblyFrame ==
  [][urn_mapping' = urn_mapping /\ resources' = resources]_vars

\* A POST call has finished after it minted a transport identifier and rewrote
\* a reference in an entry; the caller's map and records are as handed in.
C29_Witness ==
  /\ pc = "done"
  /\ request_method = "POST"
  /\ DOMAIN combined_mapping # DOMAIN urn_mapping
  /\ \E n \in DOMAIN resources :
       /\ n \in DOMAIN bundles[1].entry
       /\ bundles[1].entry[n].resource.body # resources[n].body
       /\ resources[n].id # None

\* ------------------------------------------------------------------ output ordering: C30
\* The place of a record's kind in the category order; an Observation stands
\* with the measurements while only conditions and measurements precede it,
\* with its diagnostic report otherwise.  A related person's Patient stands
\* with the related persons.
CategoryRank(rs, p) ==
  CASE rs[p].rtype = "Condition" -> 1
    [] rs[p].rtype = "Observation" ->
         (IF \A q \in 1..(p - 1) : rs[q].rtype \in {"Condition", "Observation"}
          THEN 2 ELSE 5)
    [] rs[p].rtype = "MedicationRequest" -> 3
    [] rs[p].rtype \in {"Patient", "RelatedPerson"} -> 4
    [] rs[p].rtype = "DiagnosticReport" -> 5
    [] rs[p].rtype = "Immunization" -> 6
    [] rs[p].rtype = "Coverage" -> 7
    [] rs[p].rtype = "Encounter" -> 8

\* xs lists records of the subject, in the order the subject's list has them,
\* the subject's Patient first.
SubjectOrder(xs) ==
  /\ \A a \in DOMAIN xs : \E p \in DOMAIN patient_resources : patient_resources[p] = xs[a]
  /\ \A a, b \in DOMAIN xs :
       a < b => \E p, q \in DOMAIN patient_resources :
                  p < q /\ patient_resources[p] = xs[a] /\ patient_resources[q] = xs[b]
  /\ xs # <<>> => xs[1] = patient

\* What the step appends to the run's record list.
AddedToRun == SubSeq(all_resources', Len(all_resources) + 1, Len(all_resources'))

\* C30: the subject's Patient is the first of its records; a rule's records are
\* appended after those of the rules before it, in the category order
\* conditions, measurements, medication orders, related persons, diagnostic
\* reports, immunizations, coverage, visits, one per definition where the
\* definition has no quantity; a subject's records are appended as a block
\* after the earlier subjects', in their order and behind the subject's
\* Patient; and entry n of the returned bundles taken together is the entry of
\* record n handed to the assembler, whatever the chunking.
C30_OutputOrdering ==
  /\ [](pc = "rules" => patient_resources # <<>> /\ patient_resources[1] = patient)
  /\ [](pc \in {"done", "returned"} =>
         LET es == EntriesOf(bundles)
         IN /\ Len(es) = Len(resources)
            /\ \A n \in DOMAIN es :
                 es[n].fullUrl = UrnUuid(IF request_method = "POST"
                                         THEN urn_mapping[resources[n].id]
                                         ELSE resources[n].id))
  /\ [][ /\ (pc = "rules" /\ pc' = "rules") =>
             /\ rule_index' = rule_index + 1
             /\ SubSeq(patient_resources', 1, Len(patient_resources)) = patient_resources
             /\ \A a, b \in DOMAIN Added :
                  a < b => CategoryRank(Added, a) <= CategoryRank(Added, b)
             /\ Added # <<>> =>
                  /\ Len(OfKind(Added, "Condition")) = Len(NextRule.then.add_conditions)
                  /\ Len(OfKind(Added, "MedicationRequest")) = Len(NextRule.then.meds)
                  /\ Len(OfKind(Added, "RelatedPerson")) = 2 * Len(NextRule.then.related_persons)
                  /\ Len(OfKind(Added, "DiagnosticReport")) = Len(NextRule.then.diagnostic_reports)
                  /\ Len(OfKind(Added, "Coverage")) = Len(NextRule.then.coverage)
         /\ (pc = "rules" /\ pc' = "cohort") =>
             /\ index' = index + 1
             /\ SubSeq(all_resources', 1, Len(all_resources)) = all_resources
             /\ SubjectOrder(AddedToRun)
         /\ (pc = "rules" /\ pc' = "call") => SubjectOrder(resources')
         /\ (pc = "cohort" /\ pc' = "call") => resources' = all_resources
       ]_vars

\* A persona with an action of every category has been returned in one bundle
\* whose entries follow the category order.
C30_Witness ==
  /\ pc = "returned"
  /\ profile = ProfileEverything
  /\ resource_filter = {}
  /\ request_method = "PUT"
  /\ Len(result.bundles[1].entry) = 17
  /\ result.bundles[1].entry[1].resource.rtype = "Patient"
  /\ result.bundles[1].entry[2].resource.rtype = "Condition"
  /\ result.bundles[1].entry[3].resource.rtype = "Encounter"
  /\ result.bundles[1].entry[4].resource.rtype = "Condition"
  /\ result.bundles[1].entry[17].resource.rtype = "Encounter"

====
